---- MODULE Spec2Model ----
(***************************************************************************)
(* Verification model of vv1569/fhevm-voting-system.                       *)
(*                                                                         *)
(*   SpecCache : CacheManager (src/unnamed/part_002, lines 1042-1652)      *)
(*   SpecRetry : ErrorHandler.retry (src/unnamed/part_003, lines 114-228)  *)
(*                                                                         *)
(* JavaScript strings used as cache keys are sequences of one-character    *)
(* strings, so that JSON.parse / JSON.stringify on keys are computed and   *)
(* not tabulated.  Time is Date.now() in milliseconds.                     *)
(***************************************************************************)
EXTENDS Integers, Sequences, FiniteSets, TLC

VARIABLES
    cache,        \* this.cache        : cacheKey -> entry
    order,        \* iteration (insertion) order of the Map this.cache
    timers,       \* this.timers       : cacheKey -> timer handle
    pending,      \* setTimeout callbacks that are armed (not fired, not cleared)
    accessTimes,  \* this.accessTimes  : cacheKey -> Date.now() of last access
    hitCount,     \* this.hitCount     : cacheKey -> hits
    statistics,   \* this.statistics
    heap,         \* JavaScript objects by reference
    now,          \* Date.now()
    last,         \* the call that was made last, with what it returned
    shadow,       \* history: what the caller stored under a key, and until when
    calls         \* history: how many calls the callers have made

cacheVars == <<cache, order, timers, pending, accessTimes, hitCount,
               statistics, heap, now, last, shadow, calls>>

VARIABLES
    config,       \* retry: { ...this.retryConfig, ...options }
    attempt,      \* retry: the loop variable
    lastError,    \* retry: the error caught last
    pc,           \* retry: where the call stands
    result,       \* retry: what the call returned, or the error it threw
    fnCalls,      \* history: the arguments fn was called with, in order
    thrown,       \* history: the errors fn threw, in order
    sleeps        \* history: the delays this.sleep was called with, in order

retryVars == <<config, attempt, lastError, pc, result, fnCalls, thrown, sleeps>>

VARIABLES
    awaiting,     \* getOrSet: the calls suspended at await factory(), with their keys
    factoryCalls  \* history: how many times a factory was invoked

getOrSetVars == <<awaiting, factoryCalls>>

VARIABLES
    owner,             \* VotingSystem: address public owner
    proposalCount,     \* VotingSystem: uint256 public proposalCount
    proposals,         \* VotingSystem: mapping(uint256 => Proposal)
    votingPower,       \* VotingSystem: mapping(address => euint32)
    authorizedVoters,  \* VotingSystem: mapping(address => bool), as a set
    blockTimestamp,    \* block.timestamp
    tx,                \* the transaction or call made last, and its outcome
    created,           \* history: how many createProposal calls succeeded
    txCount            \* history: how many transactions and calls were made

votingVars == <<owner, proposalCount, proposals, votingPower, authorizedVoters,
                blockTimestamp, tx, created, txCount>>

VARIABLES
    responseCache,     \* PerformanceOptimizer: this.cache
    pendingRequests,   \* PerformanceOptimizer: this.pendingRequests
    metrics,           \* PerformanceOptimizer: this.metrics (the counters)
    requests,          \* the underlying requests executeRequest started
    waiting,           \* the optimizedFetch calls suspended at an await, in order
    microtasks,        \* the continuations that are ready to run, in order
    outcomes,          \* history: how each optimizedFetch call ended
    clock              \* Date.now() of the page

fetchVars == <<responseCache, pendingRequests, metrics, requests, waiting,
               microtasks, outcomes, clock>>

VARIABLES
    classified         \* classifyError: the error handed in and what was returned

classifyVars == <<classified>>

VARIABLES
    smState,           \* StateManager: this.state
    listeners,         \* StateManager: this.listeners, by their selectors
    middleware,        \* StateManager: this.middleware
    history,           \* StateManager: this.history
    dispatching,       \* the dispatch calls waiting at `await middleware(...)`
    dispatched,        \* history: what each dispatch call did, in the order they ended
    smNow,             \* Date.now() of the page
    smCalls,           \* history: the calls the page has made on the state manager
    smLast             \* history: the last getCache or setCache and what it returned

stateVars == <<smState, listeners, middleware, history, dispatching, dispatched,
               smNow, smCalls, smLast>>

VARIABLES
    wallet,            \* WalletManager: provider, signer, userAddress, isOwner
    walletPc,          \* connect: the await it is suspended at, or "idle"
    ethereum,          \* window.ethereum is MetaMask
    walletLast,        \* history: the last call that ended and what it returned
    connectedOk,       \* history: a connect resolved to true and no disconnect followed
    walletCalls        \* history: the calls made on the wallet manager

walletVars == <<wallet, walletPc, ethereum, walletLast, connectedOk, walletCalls>>

\* the state of the subsystems that follow
laterVars == <<classifyVars, stateVars, walletVars>>

vars == <<cacheVars, retryVars, getOrSetVars, votingVars, fetchVars, laterVars>>

\* what neither the cache nor getOrSet touches
outsideCache == <<retryVars, votingVars, fetchVars, laterVars>>

nonCacheVars == <<outsideCache, getOrSetVars>>

nonRetryVars == <<cacheVars, getOrSetVars, votingVars, fetchVars, laterVars>>

nonVotingVars == <<cacheVars, retryVars, getOrSetVars, fetchVars, laterVars>>

nonFetchVars == <<cacheVars, retryVars, getOrSetVars, votingVars, laterVars>>

earlierVars == <<cacheVars, retryVars, getOrSetVars, votingVars, fetchVars>>

nonClassifyVars == <<earlierVars, stateVars, walletVars>>

nonStateVars == <<earlierVars, classifyVars, walletVars>>

nonWalletVars == <<earlierVars, classifyVars, stateVars>>

-----------------------------------------------------------------------------
(* Bounds of the model *)

MaxSize == 2        \* options.maxSize of the instance under test
DefaultTTL == 3     \* options.defaultTTL of the instance under test
Now0 == 10          \* Date.now() when the instance is constructed
MaxTime == 2        \* the clock is observed at Now0 .. Now0 + MaxTime
MaxCalls == 3       \* calls the callers make on the instance

-----------------------------------------------------------------------------
(* Generic helpers for JavaScript Maps *)

Remove(f, k) == [x \in (DOMAIN f) \ {k} |-> f[x]]

Put(f, k, v) == [x \in (DOMAIN f) \cup {k} |-> IF x = k THEN v ELSE f[x]]

EmptyMap == [x \in {} |-> 0]

GetOr0(f, k) == IF k \in DOMAIN f THEN f[k] ELSE 0

Without(s, k) == LET Keep(x) == x # k IN SelectSeq(s, Keep)

SetMin(S) == CHOOSE x \in S : \A y \in S : x <= y

-----------------------------------------------------------------------------
(* Keys.  A JavaScript key is a string or a number; s holds the characters *)
(* of the string, or the decimal digits of the number.                     *)

Q == "\""

Digits == {"0", "1", "2", "3", "4", "5", "6", "7", "8", "9"}

StrKey(chars) == [t |-> "string", s |-> chars]

NumKey(digits) == [t |-> "number", s |-> digits]

\* JSON.parse accepts a text of the key alphabet iff it is a string literal
\* or a number; every other text makes it throw.
IsJSONString(text) ==
    /\ Len(text) >= 2
    /\ text[1] = Q
    /\ text[Len(text)] = Q
    /\ \A i \in 2..(Len(text) - 1) : text[i] # Q

IsJSONNumber(text) ==
    /\ Len(text) >= 1
    /\ \A i \in 1..Len(text) : text[i] \in Digits
    /\ (Len(text) > 1 => text[1] # "0")

normalizeKey(key) ==
    IF key.t = "string" THEN key.s      \* typeof key === 'string' ? key
    ELSE key.s                          \* JSON.stringify(number): its digits

denormalizeKey(key) ==
    IF IsJSONString(key) THEN StrKey(SubSeq(key, 2, Len(key) - 1))
    ELSE IF IsJSONNumber(key) THEN NumKey(key)
    ELSE StrKey(key)                    \* JSON.parse threw: catch { return key }

\* if (leastUsedKey): null and the empty string are falsy
Truthy(key) == key # <<>>

\* String(x), as RegExp.prototype.test coerces its argument
StringOf(key) == key.s

-----------------------------------------------------------------------------
(* Values.  A value is a primitive or a reference to an object on the heap. *)
(* An object is a function from field names to field values; the field     *)
(* value "undefined" is a property that holds undefined, "cycle" a property *)
(* that refers back to the object itself.                                   *)

Prim(p) == [t |-> "prim", p |-> p, r |-> 0]

Ref(r) == [t |-> "ref", p |-> "", r |-> r]

Null == Prim("null")

Throws(content) == \E f \in DOMAIN content : content[f] = "cycle"

\* JSON.parse(JSON.stringify(obj)): properties holding undefined are dropped
JsonRoundTrip(content) ==
    [f \in {g \in DOMAIN content : content[g] # "undefined"} |-> content[f]]

\* JSON.stringify(obj).length: {} is 2 characters, {"id":1} is 8,
\* {"extra":1} is 11, {"id":1,"extra":1} is 18
StringifyLen(content) ==
    LET fs == DOMAIN JsonRoundTrip(content)
    IN  2 + (IF "id" \in fs THEN 6 ELSE 0) + (IF "extra" \in fs THEN 9 ELSE 0)
          + (IF Cardinality(fs) = 2 THEN 1 ELSE 0)

Alloc(h) == SetMin({r \in 1..(Cardinality(DOMAIN h) + 1) : r \notin DOMAIN h})

cloneData(h, data) ==
    IF data.t = "prim" THEN [heap |-> h, val |-> data]
    ELSE IF Throws(h[data.r]) THEN [heap |-> h, val |-> data]
    ELSE LET r == Alloc(h)
         IN  [heap |-> Put(h, r, JsonRoundTrip(h[data.r])), val |-> Ref(r)]

calculateSize(h, data) ==
    IF data.t = "prim" THEN (IF data.p = "null" THEN 4 ELSE 1)
    ELSE IF Throws(h[data.r]) THEN 0
    ELSE StringifyLen(h[data.r])

EmptyObject == [f \in {} |-> ""]

\* what a value looks like to a deep comparison
Deep(h, v) ==
    IF v.t = "prim" THEN [t |-> "prim", p |-> v.p, c |-> EmptyObject]
    ELSE [t |-> "object", p |-> "", c |-> h[v.r]]

-----------------------------------------------------------------------------
(* CacheManager.  The operations are functions of the instance            *)
(*   cm = [cache, order, timers, pending, accessTimes, hitCount,          *)
(*         statistics, heap]                                              *)
(* and of t = Date.now(); each returns the instance after the call and    *)
(* what the call returned.                                                *)

\* mutant: the comparison with the clock the wrong way round
isExpired_flipped(entry, t) == entry.expiresAt > 0 /\ t < entry.expiresAt

isExpired(entry, t) == entry.expiresAt > 0 /\ t > entry.expiresAt

\* clearTimeout(this.timers.get(cacheKey)) when this.timers.has(cacheKey)
clearTimer(cm, cacheKey) ==
    IF cacheKey \in DOMAIN cm.timers
    THEN {tm \in cm.pending : tm.id # cm.timers[cacheKey]}
    ELSE cm.pending

\* a handle no live reference holds is as good as a fresh one
NewTimerId(cm, pend) ==
    LET used == {tm.id : tm \in pend} \cup {cm.timers[k] : k \in DOMAIN cm.timers}
    IN  SetMin({i \in 1..(Cardinality(used) + 1) : i \notin used})

\* mutant: the deletion is counted before the entry is looked up
delete_countsFirst(cm, key) ==
    LET cacheKey == normalizeKey(key)
        counted == [cm EXCEPT !.statistics.deletes = @ + 1]
    IN  IF cacheKey \notin DOMAIN cm.cache
        THEN [cm |-> counted, ret |-> FALSE]
        ELSE [cm |-> [counted EXCEPT
                        !.pending = clearTimer(cm, cacheKey),
                        !.timers = Remove(@, cacheKey),
                        !.cache = Remove(@, cacheKey),
                        !.order = Without(@, cacheKey),
                        !.accessTimes = Remove(@, cacheKey),
                        !.hitCount = Remove(@, cacheKey),
                        !.statistics.totalSize = @ - cm.cache[cacheKey].size],
              ret |-> TRUE]

delete(cm, key) ==
    LET cacheKey == normalizeKey(key) IN
    IF cacheKey \notin DOMAIN cm.cache
    THEN [cm |-> cm, ret |-> FALSE]
    ELSE LET entry == cm.cache[cacheKey] IN
         [cm |-> [cm EXCEPT
                    !.pending = clearTimer(cm, cacheKey),
                    !.timers = Remove(@, cacheKey),
                    !.cache = Remove(@, cacheKey),
                    !.order = Without(@, cacheKey),
                    !.accessTimes = Remove(@, cacheKey),
                    !.hitCount = Remove(@, cacheKey),
                    !.statistics = [@ EXCEPT !.deletes = @ + 1,
                                             !.totalSize = @ - entry.size]],
          ret |-> TRUE]

priorityWeight(entry) ==
    IF entry.priority = "high" THEN 3
    ELSE IF entry.priority = "normal" THEN 2 ELSE 1

\* (hitCount + 1) * priority * (accessTime / 1000), in units of 1/1000
score(cm, key) ==
    (GetOr0(cm.hitCount, key) + 1) * priorityWeight(cm.cache[key])
        * GetOr0(cm.accessTimes, key)

\* the loop of evictLeastUsed: the first entry, in iteration order, whose
\* score no other entry undercuts; "null" when the cache is empty
leastUsed(cm) ==
    IF cm.order = <<>> THEN [found |-> FALSE, key |-> <<>>]
    ELSE LET i == SetMin({j \in 1..Len(cm.order) :
                            \A k \in 1..Len(cm.order) :
                                score(cm, cm.order[j]) <= score(cm, cm.order[k])})
         IN  [found |-> TRUE, key |-> cm.order[i]]

evictLeastUsed(cm) ==
    LET lu == leastUsed(cm) IN
    IF lu.found /\ Truthy(lu.key)
    THEN LET d == delete(cm, denormalizeKey(lu.key))
         IN  [d.cm EXCEPT !.statistics.evictions = @ + 1]
    ELSE cm


\* this.options.compressionEnabled, this.options.encryptionEnabled
compressionEnabled == FALSE
encryptionEnabled == FALSE

\* compress, decompress, encrypt, decrypt return their argument
compress(data) == data
encrypt(data) == data

set(cm, key, value, options, t) ==
    LET cacheKey == normalizeKey(key)
        ttl == IF options.ttl # 0 THEN options.ttl ELSE DefaultTTL
        priority == IF options.priority # "" THEN options.priority ELSE "normal"
        tags == options.tags
        known == cacheKey \in DOMAIN cm.cache
        c1 == IF Cardinality(DOMAIN cm.cache) >= MaxSize /\ ~known
              THEN evictLeastUsed(cm) ELSE cm
        pend1 == clearTimer(c1, cacheKey)
        cl == cloneData(c1.heap, value)
        size == calculateSize(c1.heap, value)
        compressed == compressionEnabled /\ size > 1024
        data1 == IF compressed THEN compress(cl.val) ELSE cl.val
        entry == [data |-> IF encryptionEnabled THEN encrypt(data1) ELSE data1,
                  timestamp |-> t,
                  ttl |-> ttl,
                  expiresAt |-> t + ttl,
                  priority |-> priority,
                  tags |-> tags,
                  size |-> size,
                  compressed |-> compressed,
                  encrypted |-> encryptionEnabled]
        tid == NewTimerId([c1 EXCEPT !.timers = Remove(@, cacheKey)], pend1)
    IN  [cm |-> [c1 EXCEPT
                   !.heap = cl.heap,
                   !.cache = Put(@, cacheKey, entry),
                   !.order = IF cacheKey \in DOMAIN c1.cache THEN @
                             ELSE Append(@, cacheKey),
                   !.accessTimes = Put(@, cacheKey, t),
                   !.hitCount = Put(@, cacheKey, 0),
                   !.pending = IF ttl > 0
                               THEN pend1 \cup {[id |-> tid, key |-> key, due |-> t + ttl]}
                               ELSE pend1,
                   !.timers = IF ttl > 0 THEN Put(@, cacheKey, tid) ELSE @,
                   !.statistics = [@ EXCEPT !.sets = @ + 1,
                                            !.totalSize = @ + size]],
         ret |-> TRUE]

\* options.defaultValue || null ; Null stands for an absent or falsy default
get(cm, key, options, t) ==
    LET cacheKey == normalizeKey(key)
        miss == options.defaultValue
    IN  IF cacheKey \notin DOMAIN cm.cache
        THEN [cm |-> [cm EXCEPT !.statistics.misses = @ + 1],
              ret |-> miss, hit |-> FALSE]
        ELSE IF isExpired(cm.cache[cacheKey], t)
        THEN [cm |-> [delete(cm, key).cm EXCEPT !.statistics.misses = @ + 1],
              ret |-> miss, hit |-> FALSE]
        ELSE LET cl == cloneData(cm.heap, cm.cache[cacheKey].data)
             IN  [cm |-> [cm EXCEPT
                            !.accessTimes = Put(@, cacheKey, t),
                            !.hitCount = Put(@, cacheKey, GetOr0(@, cacheKey) + 1),
                            !.statistics.hits = @ + 1,
                            !.heap = cl.heap],
                  ret |-> cl.val, hit |-> TRUE]

\* additionalTTL || entry.ttl ; 0 stands for an absent or falsy argument
touch(cm, key, additionalTTL, t) ==
    LET cacheKey == normalizeKey(key) IN
    IF cacheKey \notin DOMAIN cm.cache THEN [cm |-> cm, ret |-> FALSE]
    ELSE IF isExpired(cm.cache[cacheKey], t) THEN [cm |-> cm, ret |-> FALSE]
    ELSE LET delay == IF additionalTTL # 0 THEN additionalTTL
                      ELSE cm.cache[cacheKey].ttl
             pend1 == clearTimer(cm, cacheKey)
             tid == NewTimerId([cm EXCEPT !.timers = Remove(@, cacheKey)], pend1)
         IN  [cm |-> [cm EXCEPT
                        !.cache[cacheKey].expiresAt = t + delay,
                        !.pending = pend1 \cup {[id |-> tid, key |-> key, due |-> t + delay]},
                        !.timers = Put(@, cacheKey, tid)],
              ret |-> TRUE]

\* new RegExp(pattern).test(x) for a pattern of one literal character
regexTest(pattern, key) ==
    \E i \in 1..Len(StringOf(key)) : StringOf(key)[i] = pattern

\* the two for-of loops of clear: the Map is iterated live, so an entry that
\* an earlier iteration deleted is not visited
RECURSIVE clearLoop(_, _, _, _)
clearLoop(cm, keys, tags, pattern) ==
    IF keys = <<>> THEN cm
    ELSE LET key == Head(keys)
             matches ==
                 /\ key \in DOMAIN cm.cache
                 /\ IF tags # {} THEN cm.cache[key].tags \cap tags # {}
                    ELSE regexTest(pattern, denormalizeKey(key))
         IN  clearLoop(IF matches THEN delete(cm, denormalizeKey(key)).cm ELSE cm,
                       Tail(keys), tags, pattern)

\* options.tags = {} and options.pattern = "" stand for absent options
clear(cm, options) ==
    IF options.tags # {} THEN clearLoop(cm, cm.order, options.tags, "")
    ELSE IF options.pattern # "" THEN clearLoop(cm, cm.order, {}, options.pattern)
    ELSE [cm EXCEPT
            !.pending = {tm \in @ : \A k \in DOMAIN cm.timers : cm.timers[k] # tm.id},
            !.cache = EmptyMap,
            !.order = <<>>,
            !.timers = EmptyMap,
            !.accessTimes = EmptyMap,
            !.hitCount = EmptyMap,
            !.statistics.totalSize = 0]

RECURSIVE deleteAll(_, _)
deleteAll(cm, keys) ==
    IF keys = <<>> THEN cm
    ELSE deleteAll(delete(cm, Head(keys)).cm, Tail(keys))

RECURSIVE mapSeq(_, _)
mapSeq(s, i) ==
    IF i > Len(s) THEN <<>> ELSE <<denormalizeKey(s[i])>> \o mapSeq(s, i + 1)

cleanupExpired(cm, t) ==
    LET Expired(k) == isExpired(cm.cache[k], t)
        expiredKeys == mapSeq(SelectSeq(cm.order, Expired), 1)
    IN  deleteAll(cm, expiredKeys)

\* the callback of the setTimeout armed by set and by touch
expire(cm, tm) ==
    delete([cm EXCEPT !.pending = @ \ {tm}], tm.key).cm


-----------------------------------------------------------------------------
(* The callers of the cache *)

KeyA == StrKey(<<"a">>)                 \* 'a'
KeyQuotedA == StrKey(<<Q, "a", Q>>)     \* '"a"'
KeyOne == NumKey(<<"1">>)               \* 1
KeyEmpty == StrKey(<<>>)                \* ''

Keys == {KeyA, KeyQuotedA, KeyOne, KeyEmpty}

CallerRef == 1      \* the object the caller owns and passes to set

Plain1 == [id |-> "1"]
Plain2 == [id |-> "2"]
WithUndefined == [id |-> "1", extra |-> "undefined"]
Cyclic == [id |-> "1", extra |-> "cycle"]

Contents == {Plain1, Plain2, WithUndefined, Cyclic}

NoOptions == [ttl |-> 0, priority |-> "", tags |-> {}]

\* the calls of set the callers make
SetCalls ==
    { [key |-> KeyA, value |-> Ref(CallerRef), options |-> NoOptions],
      [key |-> KeyQuotedA, value |-> Ref(CallerRef),
       options |-> [ttl |-> -1, priority |-> "low", tags |-> {"x"}]],
      [key |-> KeyOne, value |-> Null,
       options |-> [ttl |-> 1, priority |-> "high", tags |-> {"x"}]],
      [key |-> KeyEmpty, value |-> Ref(CallerRef),
       options |-> [ttl |-> 1, priority |-> "low", tags |-> {"y"}]] }

GetCalls ==
    {[key |-> k, options |-> [defaultValue |-> Null]] : k \in Keys}
        \cup {[key |-> KeyA, options |-> [defaultValue |-> Prim("d")]]}

TouchCalls == {[key |-> k, additionalTTL |-> 0] : k \in Keys}
                  \cup {[key |-> KeyA, additionalTTL |-> 1]}

ClearOptions ==
    { [tags |-> {}, pattern |-> ""],
      [tags |-> {"x"}, pattern |-> ""],
      [tags |-> {}, pattern |-> "a"] }

Serializable(h, v) ==
    v.t = "prim" \/ (~Throws(h[v.r]) /\ JsonRoundTrip(h[v.r]) = h[v.r])

cmNow ==
    [cache |-> cache, order |-> order, timers |-> timers, pending |-> pending,
     accessTimes |-> accessTimes, hitCount |-> hitCount,
     statistics |-> statistics, heap |-> heap]

\* objects nothing refers to any more are collected
Reachable(c, lst) ==
    {CallerRef}
        \cup {c.cache[k].data.r : k \in {x \in DOMAIN c.cache : c.cache[x].data.t = "ref"}}
        \cup (IF lst.val.t = "ref" THEN {lst.val.r} ELSE {})

Commit(c, lst) ==
    /\ cache' = c.cache
    /\ order' = c.order
    /\ timers' = c.timers
    /\ pending' = c.pending
    /\ accessTimes' = c.accessTimes
    /\ hitCount' = c.hitCount
    /\ statistics' = c.statistics
    /\ heap' = [r \in (DOMAIN c.heap) \cap Reachable(c, lst) |-> c.heap[r]]
    /\ last' = lst

\* how the entry of a key stands when a call begins
Was(key) ==
    LET cacheKey == normalizeKey(key) IN
    IF cacheKey \notin DOMAIN cache THEN "absent"
    ELSE IF now > cache[cacheKey].expiresAt THEN "expired" ELSE "live"

\* val is the value the caller still holds from the call: what get returned
Call(op, key, ok, val, was) ==
    [op |-> op, key |-> key, ok |-> ok, val |-> val, was |-> was]

\* the keys a call removed are no longer what the caller stored
Forget(sh, c) == [k \in (DOMAIN sh) \cap (DOMAIN c.cache) |-> sh[k]]

Called == calls < MaxCalls /\ calls' = calls + 1

CacheInit ==
    /\ cache = EmptyMap
    /\ order = <<>>
    /\ timers = EmptyMap
    /\ pending = {}
    /\ accessTimes = EmptyMap
    /\ hitCount = EmptyMap
    /\ statistics = [hits |-> 0, misses |-> 0, sets |-> 0, deletes |-> 0,
                     evictions |-> 0, totalSize |-> 0]
    /\ heap = [r \in {CallerRef} |-> Plain1]
    /\ now = Now0
    /\ last = Call("new", <<>>, TRUE, Null, "none")
    /\ shadow = EmptyMap
    /\ calls = 0

Set ==
    \E call \in SetCalls :
        /\ Called
        /\ LET r == set(cmNow, call.key, call.value, call.options, now)
               cacheKey == normalizeKey(call.key)
           IN  /\ Commit(r.cm, Call("set", cacheKey, r.ret, Null, Was(call.key)))
               /\ shadow' = Put(Forget(shadow, r.cm), cacheKey,
                                [v |-> Deep(heap, call.value),
                                 serializable |-> Serializable(heap, call.value),
                                 deadline |-> r.cm.cache[cacheKey].expiresAt])
        /\ UNCHANGED <<now, nonCacheVars>>

Get ==
    \E call \in GetCalls :
        /\ Called
        /\ LET r == get(cmNow, call.key, call.options, now)
           IN  Commit(r.cm, Call("get", normalizeKey(call.key), r.hit, r.ret, Was(call.key)))
        /\ UNCHANGED <<now, shadow, nonCacheVars>>

Delete ==
    \E key \in Keys :
        /\ Called
        /\ LET r == delete(cmNow, key)
           IN  /\ Commit(r.cm, Call("delete", normalizeKey(key), r.ret, Null, Was(key)))
               /\ shadow' = Forget(shadow, r.cm)
        /\ UNCHANGED <<now, nonCacheVars>>

Touch ==
    \E call \in TouchCalls :
        /\ Called
        /\ LET r == touch(cmNow, call.key, call.additionalTTL, now)
               cacheKey == normalizeKey(call.key)
           IN  /\ Commit(r.cm, Call("touch", cacheKey, r.ret, Null, Was(call.key)))
               /\ shadow' = IF r.ret /\ cacheKey \in DOMAIN shadow
                            THEN [shadow EXCEPT ![cacheKey].deadline =
                                                    r.cm.cache[cacheKey].expiresAt]
                            ELSE shadow
        /\ UNCHANGED <<now, nonCacheVars>>

Clear ==
    \E options \in ClearOptions :
        /\ Called
        /\ LET c == clear(cmNow, options)
           IN  /\ Commit(c, Call(IF options.tags # {} THEN "clearTags"
                                 ELSE IF options.pattern # "" THEN "clearPattern"
                                 ELSE "clear", <<>>, TRUE, Null, "none"))
               /\ shadow' = Forget(shadow, c)
        /\ UNCHANGED <<now, nonCacheVars>>

\* the caller changes an object it holds: its own, or the one get returned
Mutate ==
    \E r \in {CallerRef} \cup (IF last.val.t = "ref" THEN {last.val.r} ELSE {}),
       c \in Contents :
        /\ Called
        /\ heap[r] # c
        /\ heap' = [heap EXCEPT ![r] = c]
        /\ last' = [last EXCEPT !.op = "mutate"]
        /\ UNCHANGED <<cache, order, timers, pending, accessTimes, hitCount,
                       statistics, now, shadow, nonCacheVars>>

\* the setInterval callback of startCleanupInterval
Sweep ==
    /\ Commit(cleanupExpired(cmNow, now), Call("sweep", <<>>, TRUE, Null, "none"))
    /\ UNCHANGED <<now, shadow, calls, nonCacheVars>>

\* a timeout fires at or after the time it was armed for
Expire ==
    \E tm \in pending :
        /\ tm.due <= now
        /\ Commit(expire(cmNow, tm), Call("expire", normalizeKey(tm.key), TRUE, Null, "none"))
        /\ UNCHANGED <<now, shadow, calls, nonCacheVars>>

Tick ==
    /\ now < Now0 + MaxTime
    /\ now' = now + 1
    /\ last' = Call("tick", <<>>, TRUE, Null, "none")
    /\ heap' = [r \in (DOMAIN heap) \cap Reachable(cmNow, last') |-> heap[r]]
    /\ shadow' = [k \in {x \in DOMAIN shadow : shadow[x].deadline > now + 1} |-> shadow[k]]
    /\ UNCHANGED <<cache, order, timers, pending, accessTimes, hitCount,
                   statistics, calls, nonCacheVars>>

\* getOrSet up to its await: the lookup, and on null the call of factory()
\* mutant: a call that finds a factory already running for its key waits for
\* that one instead of invoking its own
GetOrSet_singleFlight ==
    \E key \in Keys :
        /\ Called
        /\ LET r == get(cmNow, key, [defaultValue |-> Null], now)
               cacheKey == normalizeKey(key)
           IN  IF r.ret # Null
               THEN /\ Commit(r.cm, Call("getOrSet", cacheKey, TRUE, r.ret, Was(key)))
                    /\ UNCHANGED <<awaiting, factoryCalls>>
               ELSE /\ Commit(r.cm, Call("getOrSet", cacheKey, FALSE, Null, Was(key)))
                    /\ awaiting' = awaiting \cup {[key |-> key, call |-> calls']}
                    /\ factoryCalls' =
                           IF \E a \in awaiting : normalizeKey(a.key) = cacheKey
                           THEN factoryCalls ELSE factoryCalls + 1
        /\ UNCHANGED <<now, shadow, outsideCache>>

GetOrSet ==
    \E key \in Keys :
        /\ Called
        /\ LET r == get(cmNow, key, [defaultValue |-> Null], now)
               cacheKey == normalizeKey(key)
           IN  IF r.ret # Null
               THEN /\ Commit(r.cm, Call("getOrSet", cacheKey, TRUE, r.ret, Was(key)))
                    /\ UNCHANGED <<awaiting, factoryCalls>>
               ELSE /\ Commit(r.cm, Call("getOrSet", cacheKey, FALSE, Null, Was(key)))
                    /\ awaiting' = awaiting \cup {[key |-> key, call |-> calls']}
                    /\ factoryCalls' = factoryCalls + 1
        /\ UNCHANGED <<now, shadow, outsideCache>>

\* what a factory resolves to
FactoryValues == {Ref(CallerRef), Prim("v"), Null, Prim("undefined")}

\* getOrSet after its await: the factory's promise is fulfilled
FactoryResolves ==
    \E suspended \in awaiting, value \in FactoryValues :
        /\ LET key == suspended.key
               cacheKey == normalizeKey(key)
               stores == value \notin {Null, Prim("undefined")}
               r == set(cmNow, key, value, NoOptions, now)
               cm == IF stores THEN r.cm ELSE cmNow
           IN  /\ Commit(cm, Call("getOrSetResolved", cacheKey, stores, value, Was(key)))
               /\ shadow' = IF stores
                            THEN Put(Forget(shadow, cm), cacheKey,
                                     [v |-> Deep(heap, value),
                                      serializable |-> Serializable(heap, value),
                                      deadline |-> cm.cache[cacheKey].expiresAt])
                            ELSE shadow
        /\ awaiting' = awaiting \ {suspended}
        /\ UNCHANGED <<now, calls, factoryCalls, outsideCache>>

\* getOrSet after its await: the factory's promise is rejected, and rethrown
FactoryRejects ==
    \E suspended \in awaiting :
        /\ last' = Call("getOrSetThrew", normalizeKey(suspended.key), FALSE, Null,
                        Was(suspended.key))
        /\ awaiting' = awaiting \ {suspended}
        /\ heap' = [r \in (DOMAIN heap) \cap Reachable(cmNow, last') |-> heap[r]]
        /\ UNCHANGED <<cache, order, timers, pending, accessTimes, hitCount,
                       statistics, now, shadow, calls, factoryCalls, outsideCache>>

GetOrSetIdle == awaiting = {} /\ factoryCalls = 0

GetOrSetNext ==
    \/ GetOrSet
    \/ FactoryResolves
    \/ FactoryRejects
    \/ Set
    \/ Delete
    \/ Expire
    \/ Tick

CacheNext ==
    \/ Set
    \/ Get
    \/ Delete
    \/ Touch
    \/ Clear
    \/ Mutate
    \/ Sweep
    \/ Expire
    \/ Tick



-----------------------------------------------------------------------------
(* Claims about CacheManager *)

\* C1: after any sequence of set calls, interleaved with get, delete and
\* touch, the number of stored entries never exceeds the configured maxSize.
C1_SizeWithinMaxSize == Cardinality(DOMAIN cache) <= MaxSize

C3_SetThenGet ==
    [][\A k \in DOMAIN shadow :
          (last'.op = "get" /\ last'.key = k /\ shadow[k].serializable
               /\ now < shadow[k].deadline)
              => (last'.ok /\ Deep(heap', last'.val) = shadow[k].v)]_vars

\* C4: a set of a new key on a cache at capacity removes exactly one of the
\* stored entries, counts one eviction, and the entry it inserts is stored
\* afterwards.
C4_EvictsExactlyOne ==
    [][(last'.op = "set" /\ last'.was = "absent"
            /\ Cardinality(DOMAIN cache) = MaxSize)
          => /\ Cardinality((DOMAIN cache) \ (DOMAIN cache')) = 1
             /\ statistics'.evictions = statistics.evictions + 1
             /\ last'.key \in DOMAIN cache'
             /\ Cardinality(DOMAIN cache') = MaxSize]_vars

\* what get(k) hands out for a stored entry: a deep copy of its data
Peek(c, h, k) ==
    LET cl == cloneData(h, c[k].data) IN Deep(cl.heap, cl.val)

\* C5: clear({tags: ["x"]}) removes every entry tagged x and leaves every
\* other entry stored, with its value, expiry and bookkeeping unchanged.
C5_ClearByTag ==
    [][last'.op = "clearTags"
          => \A k \in DOMAIN cache :
                IF "x" \in cache[k].tags
                THEN k \notin DOMAIN cache'
                ELSE /\ k \in DOMAIN cache'
                     /\ cache'[k] = cache[k]
                     /\ Peek(cache', heap', k) = Peek(cache, heap, k)
                     /\ accessTimes'[k] = accessTimes[k]
                     /\ hitCount'[k] = hitCount[k]]_vars

\* C6: delete(k) returns true iff an entry for k was stored; on an absent
\* key it returns false and changes neither the entries, nor the timers, nor
\* the access bookkeeping, nor the statistics.
C6_DeleteAbsentIsNoOp ==
    [][last'.op = "delete"
          => /\ last'.ok <=> (last'.key \in DOMAIN cache)
             /\ last'.key \in DOMAIN cache => last'.key \notin DOMAIN cache'
             /\ last'.key \notin DOMAIN cache
                   => UNCHANGED <<cache, order, timers, pending, accessTimes,
                                  hitCount, statistics>>]_vars

C6_Witness ==
    /\ last.op = "delete"
    /\ last.was = "absent"
    /\ ~last.ok
    /\ Cardinality(DOMAIN cache) = 2
    /\ pending # {}

\* C7: the cache owns what it stores: when the caller changes the object it
\* passed to set, or an object get returned, what get(k) returns for any
\* stored key stays the same.
C7_ExclusiveOwnership ==
    [][last'.op = "mutate"
          => \A k \in DOMAIN cache :
                Peek(cache', heap', k) = Peek(cache, heap, k)]_vars

\* C24: getOrSet has no single-flight protection.  A call for an absent key
\* that starts while another call for the same key is still waiting for its
\* factory invokes a factory of its own, so every waiting call has its own
\* invocation; and each time a factory resolves with a value that is stored,
\* the cache holds that value for the key, whatever an earlier factory wrote.
C24_NoSingleFlight ==
    [][/\ (/\ calls' = calls + 1
           /\ last'.op = "getOrSet"
           /\ last'.was = "absent"
           /\ \E a \in awaiting : normalizeKey(a.key) = last'.key)
          => /\ factoryCalls' = factoryCalls + 1
             /\ Cardinality(awaiting') = Cardinality(awaiting) + 1
       /\ Cardinality(awaiting') <= factoryCalls'
       /\ (/\ last'.op = "getOrSetResolved"
           /\ awaiting' # awaiting
           /\ last'.val \notin {Null, Prim("undefined")})
          => /\ last'.key \in DOMAIN cache'
             /\ Peek(cache', heap', last'.key) = Deep(heap', last'.val)]_vars

\* two calls for one absent key overlapped, both factories ran and stored,
\* and the cache holds what the later one resolved to
C24_Witness ==
    /\ calls = 2
    /\ factoryCalls = 2
    /\ awaiting = {}
    /\ statistics.sets = 2
    /\ statistics.deletes = 0
    /\ Cardinality(DOMAIN cache) = 1
    /\ last.op = "getOrSetResolved"
    /\ last.val = Prim("v")
    /\ \A k \in DOMAIN cache : cache[k].data = Prim("v")

RECURSIVE SumOfSizes(_, _)
SumOfSizes(c, keys) ==
    IF keys = {} THEN 0
    ELSE LET k == CHOOSE x \in keys : TRUE
         IN  c[k].size + SumOfSizes(c, keys \ {k})

\* C25: after any sequence of set, get, delete, touch, clear and evictions,
\* statistics.totalSize is the sum of the sizes of the entries stored.
C25_TotalSizeIsSum == statistics.totalSize = SumOfSizes(cache, DOMAIN cache)

\* C21: touch on a live entry extends its expiry: expiresAt is not earlier
\* than before, the stored value is the same, and exactly one timer stays
\* armed for the key; on an absent or expired key touch returns false and
\* changes nothing.
C21_TouchExtends ==
    [][calls' = calls + 1 /\ last'.op = "touch"
          => IF last'.was = "live"
             THEN /\ last'.ok
                  /\ cache'[last'.key].expiresAt >= cache[last'.key].expiresAt
                  /\ Peek(cache', heap', last'.key) = Peek(cache, heap, last'.key)
                  /\ Cardinality({tm \in pending' :
                                     normalizeKey(tm.key) = last'.key}) = 1
             ELSE /\ ~last'.ok
                  /\ UNCHANGED <<cache, order, timers, pending, accessTimes,
                                 hitCount, statistics, heap>>]_vars

\* C22: an eviction removes the entry whose score (hitCount + 1) *
\* priorityWeight * lastAccessSeconds is the lowest: whenever an eviction is
\* counted, one stored entry is removed, and no entry stored before it had a
\* strictly lower score than the removed one.
C22_EvictsLowestScore ==
    [][statistics'.evictions # statistics.evictions
          => \E e \in DOMAIN cache :
                /\ (DOMAIN cache) \ (DOMAIN cache') = {e}
                /\ \A k \in DOMAIN cache : score(cmNow, e) <= score(cmNow, k)]_vars

\* C11: a getOrSet call on a key that is absent or expired invokes the
\* factory exactly once and stores what it resolves to, so that a get of the
\* key that follows returns it; a getOrSet call on a key that is stored and
\* not expired does not invoke the factory and does not write the cache.
C11_GetOrSet ==
    [][/\ last'.op = "getOrSet"
          => IF last'.was = "live"
             THEN /\ factoryCalls' = factoryCalls
                  /\ awaiting' = awaiting
                  /\ cache' = cache
                  /\ statistics'.sets = statistics.sets
             ELSE /\ factoryCalls' = factoryCalls + 1
                  /\ last'.key \notin DOMAIN cache'
       /\ last'.op = "getOrSetResolved"
          => /\ factoryCalls' = factoryCalls
             /\ last'.key \in DOMAIN cache'
             /\ ~isExpired(cache'[last'.key], now')
             /\ Peek(cache', heap', last'.key) = Deep(heap', last'.val)]_vars

-----------------------------------------------------------------------------
(* ErrorHandler.retry.  An error is what classifyError reads of it: the    *)
(* keywords its lower-cased message includes, and its code.                *)

\* this.retryConfig
DefaultMaxRetries == 3
DefaultBaseDelay == 1000
DefaultMaxDelay == 10000
DefaultBackoffFactor == 2

MaxRetriesOption == 3   \* options.maxRetries ranges over 0 .. MaxRetriesOption

Error(message, code) == [message |-> message, code |-> code]

Undefined == Error({"<undefined>"}, "none")

ErrorInfo(type, canRetry, severity) ==
    [type |-> type, canRetry |-> canRetry, severity |-> severity]

\* mutant: the wallet keywords are looked for before the contract keywords
classifyError_walletFirst(error) ==
    LET includes(kw) == kw \in error.message
        code == error.code
    IN  IF includes("network") \/ includes("fetch") \/ includes("connection")
           \/ code = "NETWORK_ERROR"
        THEN ErrorInfo("network", TRUE, "medium")
        ELSE IF includes("wallet") \/ includes("metamask")
                \/ includes("user rejected") \/ code = "4001"
        THEN ErrorInfo("wallet", TRUE, "medium")
        ELSE IF includes("revert") \/ includes("gas") \/ includes("contract")
                \/ code = "CALL_EXCEPTION"
        THEN ErrorInfo("contract", FALSE, "high")
        ELSE IF includes("invalid") \/ includes("validation") \/ includes("required")
        THEN ErrorInfo("validation", FALSE, "low")
        ELSE IF includes("permission") \/ includes("unauthorized")
                \/ includes("forbidden") \/ code = "403"
        THEN ErrorInfo("permission", FALSE, "high")
        ELSE IF includes("timeout") \/ includes("timed out") \/ code = "TIMEOUT"
        THEN ErrorInfo("timeout", TRUE, "medium")
        ELSE ErrorInfo("unknown", TRUE, "medium")

classifyError(error) ==
    LET includes(kw) == kw \in error.message
        code == error.code
    IN  IF includes("network") \/ includes("fetch") \/ includes("connection")
           \/ code = "NETWORK_ERROR"
        THEN ErrorInfo("network", TRUE, "medium")
        ELSE IF includes("revert") \/ includes("gas") \/ includes("contract")
                \/ code = "CALL_EXCEPTION"
        THEN ErrorInfo("contract", FALSE, "high")
        ELSE IF includes("wallet") \/ includes("metamask")
                \/ includes("user rejected") \/ code = "4001"
        THEN ErrorInfo("wallet", TRUE, "medium")
        ELSE IF includes("invalid") \/ includes("validation") \/ includes("required")
        THEN ErrorInfo("validation", FALSE, "low")
        ELSE IF includes("permission") \/ includes("unauthorized")
                \/ includes("forbidden") \/ code = "403"
        THEN ErrorInfo("permission", FALSE, "high")
        ELSE IF includes("timeout") \/ includes("timed out") \/ code = "TIMEOUT"
        THEN ErrorInfo("timeout", TRUE, "medium")
        ELSE ErrorInfo("unknown", TRUE, "medium")

RECURSIVE pow(_, _)
pow(b, e) == IF e = 0 THEN 1 ELSE b * pow(b, e - 1)

min(a, b) == IF a < b THEN a ELSE b

\* mutant: the delay is not capped at maxDelay
backoffDelay_uncapped(cfg, i) == cfg.baseDelay * pow(cfg.backoffFactor, i)

\* Math.min(config.baseDelay * Math.pow(config.backoffFactor, attempt), config.maxDelay)
backoffDelay(cfg, i) == min(cfg.baseDelay * pow(cfg.backoffFactor, i), cfg.maxDelay)

\* mutant: the classification of the error is not consulted
givesUp_ignoresClass(cfg, i, error) == i = cfg.maxRetries

\* mutant: the last attempt is not recognised as the last
givesUp_offByOne(cfg, i, error) ==
    ~classifyError(error).canRetry \/ i = cfg.maxRetries + 1

\* if (!errorInfo.canRetry || attempt === config.maxRetries) break
givesUp(cfg, i, error) == ~classifyError(error).canRetry \/ i = cfg.maxRetries

\* the errors fn throws
Errors ==
    { Error({"network"}, "none"),
      Error({"network", "revert"}, "none"),
      Error({"revert"}, "none"),
      Error({}, "CALL_EXCEPTION"),
      Error({}, "4001"),
      Error({"invalid"}, "none"),
      Error({"timeout", "forbidden"}, "none"),
      Error({"timed out"}, "none"),
      Error({}, "none") }

\* the options retry is called with
RetryOptions ==
    [maxRetries : 0..MaxRetriesOption,
     baseDelay : {DefaultBaseDelay},
     maxDelay : {DefaultMaxDelay, 1500},
     backoffFactor : {DefaultBackoffFactor, 3}]

Success == "value"

RetryInit ==
    /\ config \in RetryOptions
    /\ attempt = 0
    /\ lastError = Undefined
    /\ pc = "call"
    /\ result = [kind |-> "pending", value |-> "", error |-> Undefined]
    /\ fnCalls = <<>>
    /\ thrown = <<>>
    /\ sleeps = <<>>

\* the instance while no retry is running
RetryIdle ==
    /\ config = [maxRetries |-> DefaultMaxRetries, baseDelay |-> DefaultBaseDelay,
                 maxDelay |-> DefaultMaxDelay, backoffFactor |-> DefaultBackoffFactor]
    /\ attempt = 0
    /\ lastError = Undefined
    /\ pc = "idle"
    /\ result = [kind |-> "pending", value |-> "", error |-> Undefined]
    /\ fnCalls = <<>>
    /\ thrown = <<>>
    /\ sleeps = <<>>

\* for (...; attempt <= config.maxRetries; ...) { result = await fn(attempt); return result }
AttemptSucceeds ==
    /\ pc = "call"
    /\ attempt <= config.maxRetries
    /\ fnCalls' = Append(fnCalls, attempt)
    /\ result' = [kind |-> "returned", value |-> Success, error |-> Undefined]
    /\ pc' = "done"
    /\ UNCHANGED <<config, attempt, lastError, thrown, sleeps, nonRetryVars>>

\* ... catch (error) { lastError = error; break, or sleep }; throw lastError
AttemptFails ==
    \E error \in Errors :
        /\ pc = "call"
        /\ attempt <= config.maxRetries
        /\ fnCalls' = Append(fnCalls, attempt)
        /\ thrown' = Append(thrown, error)
        /\ lastError' = error
        /\ IF givesUp(config, attempt, error)
           THEN /\ result' = [kind |-> "threw", value |-> "", error |-> error]
                /\ pc' = "done"
                /\ UNCHANGED sleeps
           ELSE /\ sleeps' = Append(sleeps, backoffDelay(config, attempt))
                /\ pc' = "sleep"
                /\ UNCHANGED result
        /\ UNCHANGED <<config, attempt, nonRetryVars>>

\* await this.sleep(delay) resolves; attempt++; attempt <= config.maxRetries,
\* or the loop is left and lastError is thrown
Wake ==
    /\ pc = "sleep"
    /\ attempt' = attempt + 1
    /\ IF attempt + 1 <= config.maxRetries
       THEN pc' = "call" /\ UNCHANGED result
       ELSE /\ pc' = "done"
            /\ result' = [kind |-> "threw", value |-> "", error |-> lastError]
    /\ UNCHANGED <<config, lastError, fnCalls, thrown, sleeps, nonRetryVars>>

RetryNext ==
    \/ AttemptSucceeds
    \/ AttemptFails
    \/ Wake

-----------------------------------------------------------------------------
(* Claims about ErrorHandler.retry *)

NonRetryableTypes == {"contract", "validation", "permission"}

RetryableTypes == {"network", "wallet", "timeout", "unknown"}

\* C8: when fn fails n times with retryable errors and then succeeds, retry
\* returns the success value after n + 1 calls of fn, with the attempt
\* indices 0..n, having slept min(baseDelay * backoffFactor^i, maxDelay)
\* after failed attempt i and not after the success.
C8_SuccessAfterFailures ==
    (pc = "done" /\ result.kind = "returned")
        => LET n == Len(thrown) IN
           /\ result.value = Success
           /\ n <= config.maxRetries
           /\ Len(fnCalls) = n + 1
           /\ \A i \in 1..(n + 1) : fnCalls[i] = i - 1
           /\ Len(sleeps) = n
           /\ \A i \in 1..n :
                 sleeps[i] = min(config.baseDelay * pow(config.backoffFactor, i - 1),
                                 config.maxDelay)

C8_Witness ==
    /\ pc = "done"
    /\ result.kind = "returned"
    /\ Len(thrown) = 2
    /\ Len(thrown) < config.maxRetries
    /\ sleeps = <<1000, 1500>>

\* C9: when an attempt fails with an error classified contract, validation
\* or permission, that attempt is the last call of fn, no sleep follows it,
\* and retry rejects with that error.
C9_NonRetryableStops ==
    \A i \in 1..Len(thrown) :
        classifyError(thrown[i]).type \in NonRetryableTypes
            => /\ i = Len(thrown)
               /\ Len(fnCalls) = i
               /\ Len(sleeps) = i - 1
               /\ pc = "done"
               /\ result.kind = "threw"
               /\ result.error = thrown[i]

C9_Witness ==
    /\ pc = "done"
    /\ Len(thrown) = 2
    /\ config.maxRetries = 3
    /\ classifyError(thrown[1]).type = "network"
    /\ classifyError(thrown[2]).type = "validation"
    /\ Len(fnCalls) = 2

\* C10: fn is never called more than maxRetries + 1 times; when every
\* attempt has failed with a retryable error, retry has ended, after exactly
\* maxRetries + 1 calls and maxRetries sleeps, by rejecting with the error of
\* the last attempt.
C10_ExhaustedRetries ==
    /\ Len(fnCalls) <= config.maxRetries + 1
    /\ (/\ Len(thrown) = config.maxRetries + 1
        /\ \A i \in 1..Len(thrown) : classifyError(thrown[i]).type \in RetryableTypes)
           => /\ pc = "done"
              /\ result.kind = "threw"
              /\ result.error = thrown[Len(thrown)]
              /\ \A i \in 1..Len(fnCalls) : fnCalls[i] = i - 1
              /\ Len(sleeps) = config.maxRetries
    /\ (/\ pc = "done"
        /\ result.kind = "threw"
        /\ \A i \in 1..Len(thrown) : classifyError(thrown[i]).type \in RetryableTypes)
           => Len(fnCalls) = config.maxRetries + 1

C10_Witness ==
    /\ pc = "done"
    /\ result.kind = "threw"
    /\ config.maxRetries = 3
    /\ Len(fnCalls) = 4
    /\ \A i \in 1..Len(thrown) : classifyError(thrown[i]).type \in RetryableTypes
    /\ thrown[4] # thrown[3]

-----------------------------------------------------------------------------
(* VotingSystem (src/utils/logger.js, lines 631-1018) with the TFHE library *)
(* it imports (lines 365-618).  An operation is a function of the contract *)
(*   vs = [owner, proposalCount, proposals, votingPower, authorizedVoters] *)
(* of msg.sender and of block.timestamp; it returns the contract after the *)
(* call, whether the call succeeded and, when it reverted, the reason.     *)

\* TFHE: the mock library the contract is compiled against
TFHE_asEuint8(value) == value
TFHE_asEuint8Input(encryptedValue, inputProof) == 42
TFHE_asEuint32(value) == value
TFHE_add32(a, b) == (a + b) % (2 ^ 32)
TFHE_eq(a, b) == IF a = b THEN 1 ELSE 0
TFHE_le(a, b) == IF a <= b THEN 1 ELSE 0
TFHE_gt(a, b) == IF a > b THEN 1 ELSE 0
TFHE_select(condition, a, b) == IF condition # 0 THEN a ELSE b
TFHE_decrypt(value) == value # 0

OneHour == 3600         \* 1 hours
ThirtyDays == 2592000   \* 30 days
MinVotingPower == 1     \* MIN_VOTING_POWER
MaxVotingPower == 1000
DeployerPower == 100

ZeroAddress == "0x0"

Reverted(vs, reason) == [vs |-> vs, ok |-> FALSE, reason |-> reason, ret |-> 0,
                         event |-> "none"]

Succeeded(vs, ret, event) == [vs |-> vs, ok |-> TRUE, reason |-> "", ret |-> ret,
                              event |-> event]

\* proposals[proposalId]: a mapping reads as zero where nothing was written
proposalAt(vs, proposalId) ==
    IF proposalId \in DOMAIN vs.proposals THEN vs.proposals[proposalId]
    ELSE [id |-> 0, title |-> <<>>, description |-> <<>>, creator |-> ZeroAddress,
          startTime |-> 0, endTime |-> 0, yesVotes |-> 0, noVotes |-> 0,
          abstainVotes |-> 0, finalized |-> FALSE, executed |-> FALSE,
          hasVoted |-> {}]

\* modifiers
onlyOwner(vs, sender) == sender = vs.owner

onlyAuthorizedVoter_leftOff(vs, sender) == TRUE

onlyAuthorizedVoter(vs, sender) == sender \in vs.authorizedVoters

proposalExists(vs, proposalId) == proposalId < vs.proposalCount

votingActive(vs, proposalId, timestamp) ==
    /\ timestamp >= proposalAt(vs, proposalId).startTime
    /\ timestamp <= proposalAt(vs, proposalId).endTime

votingEnded_sinceStart(vs, proposalId, timestamp) ==
    timestamp > proposalAt(vs, proposalId).startTime

votingEnded(vs, proposalId, timestamp) ==
    timestamp > proposalAt(vs, proposalId).endTime

\* the constructor, run by the deployer
constructor(sender) ==
    [owner |-> sender,
     proposalCount |-> 0,
     proposals |-> EmptyMap,
     votingPower |-> [a \in {sender} |-> TFHE_asEuint32(DeployerPower)],
     authorizedVoters |-> {sender}]

createProposal_noMinimum(vs, sender, title, description, duration, timestamp) ==
    IF ~onlyAuthorizedVoter(vs, sender)
    THEN Reverted(vs, "Not authorized to vote")
    ELSE IF ~(Len(title) > 0)
    THEN Reverted(vs, "Title cannot be empty")
    ELSE IF ~(duration <= ThirtyDays)
    THEN Reverted(vs, "Invalid duration")
    ELSE LET proposalId == vs.proposalCount
             newProposal == [id |-> proposalId,
                             title |-> title,
                             description |-> description,
                             creator |-> sender,
                             startTime |-> timestamp,
                             endTime |-> timestamp + duration,
                             yesVotes |-> TFHE_asEuint32(0),
                             noVotes |-> TFHE_asEuint32(0),
                             abstainVotes |-> TFHE_asEuint32(0),
                             finalized |-> FALSE,
                             executed |-> FALSE,
                             hasVoted |-> {}]
         IN  Succeeded([vs EXCEPT !.proposalCount = proposalId + 1,
                                  !.proposals = Put(vs.proposals, proposalId, newProposal)],
                       proposalId, "ProposalCreated")

createProposal_preIncrement(vs, sender, title, description, duration, timestamp) ==
    IF ~onlyAuthorizedVoter(vs, sender)
    THEN Reverted(vs, "Not authorized to vote")
    ELSE IF ~(Len(title) > 0)
    THEN Reverted(vs, "Title cannot be empty")
    ELSE IF ~(duration >= OneHour /\ duration <= ThirtyDays)
    THEN Reverted(vs, "Invalid duration")
    ELSE LET proposalId == vs.proposalCount + 1
             newProposal == [id |-> proposalId,
                             title |-> title,
                             description |-> description,
                             creator |-> sender,
                             startTime |-> timestamp,
                             endTime |-> timestamp + duration,
                             yesVotes |-> TFHE_asEuint32(0),
                             noVotes |-> TFHE_asEuint32(0),
                             abstainVotes |-> TFHE_asEuint32(0),
                             finalized |-> FALSE,
                             executed |-> FALSE,
                             hasVoted |-> {}]
         IN  Succeeded([vs EXCEPT !.proposalCount = proposalId + 1,
                                  !.proposals = Put(vs.proposals, proposalId, newProposal)],
                       proposalId, "ProposalCreated")

createProposal(vs, sender, title, description, duration, timestamp) ==
    IF ~onlyAuthorizedVoter(vs, sender)
    THEN Reverted(vs, "Not authorized to vote")
    ELSE IF ~(Len(title) > 0)
    THEN Reverted(vs, "Title cannot be empty")
    ELSE IF ~(duration >= OneHour /\ duration <= ThirtyDays)
    THEN Reverted(vs, "Invalid duration")
    ELSE LET proposalId == vs.proposalCount
             newProposal == [id |-> proposalId,
                             title |-> title,
                             description |-> description,
                             creator |-> sender,
                             startTime |-> timestamp,
                             endTime |-> timestamp + duration,
                             yesVotes |-> TFHE_asEuint32(0),
                             noVotes |-> TFHE_asEuint32(0),
                             abstainVotes |-> TFHE_asEuint32(0),
                             finalized |-> FALSE,
                             executed |-> FALSE,
                             hasVoted |-> {}]
         IN  Succeeded([vs EXCEPT !.proposalCount = proposalId + 1,
                                  !.proposals = Put(vs.proposals, proposalId, newProposal)],
                       proposalId, "ProposalCreated")

vote(vs, sender, proposalId, encryptedChoice, inputProof, timestamp) ==
    IF ~onlyAuthorizedVoter(vs, sender)
    THEN Reverted(vs, "Not authorized to vote")
    ELSE IF ~proposalExists(vs, proposalId)
    THEN Reverted(vs, "Proposal does not exist")
    ELSE IF ~votingActive(vs, proposalId, timestamp)
    THEN Reverted(vs, "Voting period not active")
    ELSE IF sender \in proposalAt(vs, proposalId).hasVoted
    THEN Reverted(vs, "Already voted")
    ELSE LET proposal == proposalAt(vs, proposalId)
             choice == TFHE_asEuint8Input(encryptedChoice, inputProof)
             voterPower == GetOr0(vs.votingPower, sender)
             validChoice == TFHE_le(choice, TFHE_asEuint8(2))
             isYes == TFHE_eq(choice, TFHE_asEuint8(0))
             isNo == TFHE_eq(choice, TFHE_asEuint8(1))
             isAbstain == TFHE_eq(choice, TFHE_asEuint8(2))
         IN  IF ~TFHE_decrypt(validChoice)
             THEN Reverted(vs, "Invalid vote choice")
             ELSE Succeeded(
                    [vs EXCEPT !.proposals = Put(@, proposalId,
                        [proposal EXCEPT
                            !.yesVotes = TFHE_add32(proposal.yesVotes,
                                TFHE_select(isYes, voterPower, TFHE_asEuint32(0))),
                            !.noVotes = TFHE_add32(proposal.noVotes,
                                TFHE_select(isNo, voterPower, TFHE_asEuint32(0))),
                            !.abstainVotes = TFHE_add32(proposal.abstainVotes,
                                TFHE_select(isAbstain, voterPower, TFHE_asEuint32(0))),
                            !.hasVoted = proposal.hasVoted \cup {sender}])],
                    0, "VoteCast")

finalizeProposal(vs, sender, proposalId, timestamp) ==
    IF ~proposalExists(vs, proposalId)
    THEN Reverted(vs, "Proposal does not exist")
    ELSE IF ~votingEnded(vs, proposalId, timestamp)
    THEN Reverted(vs, "Voting period still active")
    ELSE IF proposalAt(vs, proposalId).finalized
    THEN Reverted(vs, "Proposal already finalized")
    ELSE LET proposal == proposalAt(vs, proposalId)
             passed == TFHE_gt(proposal.yesVotes, proposal.noVotes)
             proposalPassed == TFHE_decrypt(passed)
         IN  Succeeded([vs EXCEPT !.proposals =
                                      Put(@, proposalId, [proposal EXCEPT !.finalized = TRUE])],
                       IF proposalPassed THEN 1 ELSE 0, "ProposalFinalized")

authorizeVoter(vs, sender, voter, power) ==
    IF ~onlyOwner(vs, sender)
    THEN Reverted(vs, "Only owner can call this function")
    ELSE IF ~(voter # ZeroAddress)
    THEN Reverted(vs, "Invalid voter address")
    ELSE IF ~(power >= MinVotingPower)
    THEN Reverted(vs, "Insufficient voting power")
    ELSE IF ~(power <= MaxVotingPower)
    THEN Reverted(vs, "Voting power too high")
    ELSE Succeeded([vs EXCEPT !.authorizedVoters = @ \cup {voter},
                              !.votingPower = Put(@, voter, TFHE_asEuint32(power))],
                   0, "VoterAuthorized")

\* mutant: the owner may be revoked
revokeVoter_ownerToo(vs, sender, voter) ==
    IF ~onlyOwner(vs, sender)
    THEN Reverted(vs, "Only owner can call this function")
    ELSE IF ~(voter \in vs.authorizedVoters)
    THEN Reverted(vs, "Voter not authorized")
    ELSE Succeeded([vs EXCEPT !.authorizedVoters = @ \ {voter},
                              !.votingPower = Put(@, voter, TFHE_asEuint32(0))],
                   0, "VoterRevoked")

revokeVoter(vs, sender, voter) ==
    IF ~onlyOwner(vs, sender)
    THEN Reverted(vs, "Only owner can call this function")
    ELSE IF ~(voter # vs.owner)
    THEN Reverted(vs, "Cannot revoke owner")
    ELSE IF ~(voter \in vs.authorizedVoters)
    THEN Reverted(vs, "Voter not authorized")
    ELSE Succeeded([vs EXCEPT !.authorizedVoters = @ \ {voter},
                              !.votingPower = Put(@, voter, TFHE_asEuint32(0))],
                   0, "VoterRevoked")

transferOwnership(vs, sender, newOwner) ==
    IF ~onlyOwner(vs, sender)
    THEN Reverted(vs, "Only owner can call this function")
    ELSE IF ~(newOwner # ZeroAddress)
    THEN Reverted(vs, "New owner cannot be zero address")
    ELSE IF ~(newOwner # vs.owner)
    THEN Reverted(vs, "New owner cannot be current owner")
    ELSE Succeeded([vs EXCEPT !.authorizedVoters = @ \cup {newOwner},
                              !.votingPower = Put(@, newOwner, TFHE_asEuint32(DeployerPower)),
                              !.owner = newOwner],
                   0, "VoterAuthorized")

\* the loop of batchAuthorizeVoters from index i on; a failing require
\* reverts the whole call
RECURSIVE batchLoop(_, _, _, _)
batchLoop(vs, voters, powers, i) ==
    IF ~(i <= Len(voters)) THEN Succeeded(vs, 0, IF Len(voters) = 0 THEN "none"
                                                 ELSE "VoterAuthorized")
    ELSE IF ~(voters[i] # ZeroAddress)
    THEN Reverted(vs, "Invalid voter address")
    ELSE IF ~(powers[i] >= MinVotingPower /\ powers[i] <= MaxVotingPower)
    THEN Reverted(vs, "Invalid voting power")
    ELSE batchLoop([vs EXCEPT !.authorizedVoters = @ \cup {voters[i]},
                              !.votingPower = Put(@, voters[i], TFHE_asEuint32(powers[i]))],
                   voters, powers, i + 1)

MaxBatch == 50

batchAuthorizeVoters(vs, sender, voters, powers) ==
    IF ~onlyOwner(vs, sender)
    THEN Reverted(vs, "Only owner can call this function")
    ELSE IF ~(Len(voters) = Len(powers))
    THEN Reverted(vs, "Arrays length mismatch")
    ELSE IF ~(Len(voters) <= MaxBatch)
    THEN Reverted(vs, "Too many voters")
    ELSE LET r == batchLoop(vs, voters, powers, 1)
         IN  IF r.ok THEN r ELSE Reverted(vs, r.reason)

\* views
getProposal(vs, proposalId) ==
    IF ~proposalExists(vs, proposalId)
    THEN Reverted(vs, "Proposal does not exist")
    ELSE LET proposal == proposalAt(vs, proposalId)
         IN  Succeeded(vs, <<proposal.title, proposal.description, proposal.creator,
                             proposal.startTime, proposal.endTime,
                             proposal.finalized, proposal.executed>>, "none")

hasVoted(vs, proposalId, voter) ==
    IF ~proposalExists(vs, proposalId)
    THEN Reverted(vs, "Proposal does not exist")
    ELSE Succeeded(vs, voter \in proposalAt(vs, proposalId).hasVoted, "none")

isVotingActive(vs, proposalId, timestamp) ==
    IF ~proposalExists(vs, proposalId)
    THEN Reverted(vs, "Proposal does not exist")
    ELSE LET proposal == proposalAt(vs, proposalId)
         IN  Succeeded(vs, timestamp >= proposal.startTime
                               /\ timestamp <= proposal.endTime, "none")

getProposalCount(vs) == Succeeded(vs, vs.proposalCount, "none")

-----------------------------------------------------------------------------
(* The accounts that call the contract, and the chain *)

Deployer == "deployer"
Alice == "alice"
Bob == "bob"
Addresses == {Deployer, Alice, Bob}

MaxProposals == 2    \* createProposal is called while proposalCount < MaxProposals
Genesis == 100       \* block.timestamp of the deployment
MaxHours == 2        \* the chain is followed for MaxHours hours
MaxTx == 4           \* and for MaxTx transactions and calls

Titles == {<<>>, <<"T">>}
Durations == {0, OneHour, ThirtyDays + 1}
ProposalIds == 0..MaxProposals
Choices == {1}                     \* the choice the client encrypted: NO

vsNow ==
    [owner |-> owner, proposalCount |-> proposalCount, proposals |-> proposals,
     votingPower |-> votingPower, authorizedVoters |-> authorizedVoters]

\* a transaction: the contract after it (a revert leaves it as it was) and
\* what the caller sees of it
Mined(op, sender, proposalId, args, r) ==
    /\ owner' = r.vs.owner
    /\ proposalCount' = r.vs.proposalCount
    /\ proposals' = r.vs.proposals
    /\ votingPower' = r.vs.votingPower
    /\ authorizedVoters' = r.vs.authorizedVoters
    /\ tx' = [op |-> op, sender |-> sender, proposalId |-> proposalId, args |-> args,
              ok |-> r.ok, reason |-> r.reason, event |-> r.event, ret |-> r.ret]
    /\ created' = IF op = "createProposal" /\ r.ok THEN created + 1 ELSE created
    /\ txCount' = txCount + 1
    /\ UNCHANGED <<blockTimestamp, nonVotingVars>>

VotingInit ==
    /\ LET vs == constructor(Deployer)
       IN  /\ owner = vs.owner
           /\ proposalCount = vs.proposalCount
           /\ proposals = vs.proposals
           /\ votingPower = vs.votingPower
           /\ authorizedVoters = vs.authorizedVoters
    /\ blockTimestamp = Genesis
    /\ tx = [op |-> "constructor", sender |-> Deployer, proposalId |-> 0, args |-> <<>>,
             ok |-> TRUE, reason |-> "", event |-> "VoterAuthorized", ret |-> 0]
    /\ created = 0
    /\ txCount = 0

CreateProposal ==
    \E sender \in Addresses, title \in Titles, duration \in Durations :
        /\ txCount < MaxTx
        /\ proposalCount < MaxProposals
        /\ Mined("createProposal", sender, proposalCount, <<title, duration>>,
                 createProposal(vsNow, sender, title, <<"d">>, duration, blockTimestamp))

Vote ==
    \E sender \in Addresses, proposalId \in ProposalIds, choice \in Choices :
        /\ txCount < MaxTx
        /\ Mined("vote", sender, proposalId, <<>>,
              vote(vsNow, sender, proposalId, choice, "proof", blockTimestamp))

FinalizeProposal ==
    \E sender \in Addresses, proposalId \in ProposalIds :
        /\ txCount < MaxTx
        /\ Mined("finalizeProposal", sender, proposalId, <<>>,
              finalizeProposal(vsNow, sender, proposalId, blockTimestamp))

AuthorizeCalls ==
    {[voter |-> v, power |-> MinVotingPower] : v \in {Alice, Bob, ZeroAddress}}
        \cup {[voter |-> Alice, power |-> p] : p \in {0, MaxVotingPower + 1}}

AuthorizeVoter ==
    \E sender \in Addresses, call \in AuthorizeCalls :
        /\ txCount < MaxTx
        /\ Mined("authorizeVoter", sender, 0, <<>>,
                 authorizeVoter(vsNow, sender, call.voter, call.power))

RevokeVoter ==
    \E sender \in Addresses, voter \in Addresses :
        /\ txCount < MaxTx
        /\ Mined("revokeVoter", sender, 0, <<>>, revokeVoter(vsNow, sender, voter))

TransferOwnership ==
    \E sender \in Addresses, newOwner \in {Deployer, Alice, ZeroAddress} :
        /\ txCount < MaxTx
        /\ Mined("transferOwnership", sender, 0, <<>>, transferOwnership(vsNow, sender, newOwner))

BatchCalls ==
    { [voters |-> <<Alice, Bob>>, powers |-> <<1, 1>>],
      [voters |-> <<Alice>>, powers |-> <<1, 1>>],
      [voters |-> <<Bob, ZeroAddress>>, powers |-> <<1, 1>>],
      [voters |-> <<Alice, Bob>>, powers |-> <<1, 0>>] }

BatchAuthorizeVoters ==
    \E sender \in Addresses, call \in BatchCalls :
        /\ txCount < MaxTx
        /\ Mined("batchAuthorizeVoters", sender, 0, <<>>,
              batchAuthorizeVoters(vsNow, sender, call.voters, call.powers))

\* the view functions: they do not read msg.sender
Query ==
    \E sender \in {Bob}, proposalId \in ProposalIds :
        /\ txCount < MaxTx
        /\ \/ Mined("getProposal", sender, proposalId, <<>>, getProposal(vsNow, proposalId))
           \/ Mined("hasVoted", sender, proposalId, <<>>, hasVoted(vsNow, proposalId, sender))
           \/ Mined("isVotingActive", sender, proposalId, <<>>,
                    isVotingActive(vsNow, proposalId, blockTimestamp))
           \/ Mined("getProposalCount", sender, 0, <<>>, getProposalCount(vsNow))

\* a later block
AdvanceTime ==
    /\ blockTimestamp + OneHour <= Genesis + MaxHours * OneHour
    /\ blockTimestamp' = blockTimestamp + OneHour
    /\ UNCHANGED <<owner, proposalCount, proposals, votingPower, authorizedVoters,
                   tx, created, txCount, nonVotingVars>>

VotingIdle == VotingInit

VotingNext ==
    \/ CreateProposal
    \/ Vote
    \/ FinalizeProposal
    \/ AuthorizeVoter
    \/ RevokeVoter
    \/ TransferOwnership
    \/ BatchAuthorizeVoters
    \/ Query
    \/ AdvanceTime

-----------------------------------------------------------------------------
(* Claims about VotingSystem *)

\* this step is a call of op
Calls(op) == txCount' = txCount + 1 /\ tx'.op = op

\* the call of this step was rejected and the contract is as it was
RejectedNoChange ==
    /\ ~tx'.ok
    /\ UNCHANGED <<owner, proposalCount, proposals, votingPower, authorizedVoters,
                   created>>

\* C13: a vote from an address that is not an authorized voter when it is
\* sent (never authorized, or revoked) is rejected as not authorized, and
\* the contract is left as it was.
C13_UnauthorizedVoteRejected ==
    [][(Calls("vote") /\ tx'.sender \notin authorizedVoters)
          => (RejectedNoChange /\ tx'.reason = "Not authorized to vote")]_vars

\* a revoked voter has voted on an existing proposal in its voting period
C13_Witness ==
    /\ tx.op = "vote"
    /\ ~tx.ok
    /\ tx.sender = Alice
    /\ Alice \notin authorizedVoters
    /\ Alice \in DOMAIN votingPower
    /\ proposalExists(vsNow, tx.proposalId)
    /\ votingActive(vsNow, tx.proposalId, blockTimestamp)

\* C14: a vote of an authorized voter who has not voted yet, on an existing
\* proposal in its voting period, succeeds, emits VoteCast, and hasVoted
\* for the proposal and the voter is false before it and true after it.
C14_AuthorizedVoteAccepted ==
    [][(/\ Calls("vote")
        /\ tx'.sender \in authorizedVoters
        /\ proposalExists(vsNow, tx'.proposalId)
        /\ votingActive(vsNow, tx'.proposalId, blockTimestamp)
        /\ ~hasVoted(vsNow, tx'.proposalId, tx'.sender).ret)
          => (/\ tx'.ok
              /\ tx'.event = "VoteCast"
              /\ tx'.sender \in proposals'[tx'.proposalId].hasVoted)]_vars

\* C15: a createProposal call from an address that is not the owner is
\* rejected and proposalCount stays as it was.
C15_OnlyOwnerCreates ==
    [][(Calls("createProposal") /\ tx'.sender # owner)
          => (~tx'.ok /\ proposalCount' = proposalCount)]_vars

\* C16: a finalizeProposal call from an address that is not the owner is
\* rejected and the proposal stays unfinalized.
C16_OnlyOwnerFinalizes ==
    [][(Calls("finalizeProposal") /\ tx'.sender # owner)
          => (~tx'.ok /\ proposals' = proposals)]_vars

\* C17: a finalized proposal stays finalized, its voting is not active, and
\* no vote on it is accepted.
C17_FinalizedIsClosed ==
    [][\A id \in DOMAIN proposals' :
          proposals'[id].finalized
              => /\ ~isVotingActive(vsNow, id, blockTimestamp)'.ret
                 /\ ~(Calls("vote") /\ tx'.proposalId = id /\ tx'.ok)
                 /\ (id \in DOMAIN proposals /\ proposals[id].finalized)
                       => proposals'[id] = proposals[id]]_vars

\* C18: a createProposal call with an empty title or with a duration of 0
\* is rejected, and proposalCount and the stored proposals stay as they
\* were.
C18_InvalidProposalRejected ==
    [][(Calls("createProposal")
            /\ (Len(tx'.args[1]) = 0 \/ tx'.args[2] = 0))
          => RejectedNoChange]_vars

\* the owner's proposal with a title and a duration of 0 was rejected while
\* another proposal is stored
C18_Witness ==
    /\ tx.op = "createProposal"
    /\ tx.sender = owner
    /\ tx.args = <<<<"T">>, 0>>
    /\ ~tx.ok
    /\ proposalCount = 1

\* C19: proposal ids are assigned in sequence from 0, getProposalCount()
\* is the number of createProposal calls that succeeded, and getProposal,
\* hasVoted and vote are rejected for an id >= proposalCount.
C19_SequentialIds ==
    [][/\ (Calls("createProposal") /\ tx'.ok)
          => /\ tx'.ret = created
             /\ DOMAIN proposals' = 0..created
             /\ proposals'[created].id = created
             /\ \A id \in DOMAIN proposals : proposals'[id] = proposals[id]
       /\ Calls("getProposalCount") => (tx'.ok /\ tx'.ret = created)
       /\ (/\ Calls("getProposal") \/ Calls("hasVoted") \/ Calls("vote")
           /\ tx'.proposalId >= proposalCount)
          => RejectedNoChange]_vars

\* two proposals were created and the count was read
C19_Witness ==
    /\ tx.op = "getProposalCount"
    /\ tx.ret = 2
    /\ created = 2
    /\ DOMAIN proposals = {0, 1}

\* an authorized voter has voted on a finalized proposal
C17_Witness ==
    /\ tx.op = "vote"
    /\ tx.sender \in authorizedVoters
    /\ proposalExists(vsNow, tx.proposalId)
    /\ proposalAt(vsNow, tx.proposalId).finalized
    /\ ~tx.ok

-----------------------------------------------------------------------------
(* PerformanceOptimizer.optimizedFetch (src/public/js/performance-optimizer.js). *)
(* A cache key is the sequence of the pieces the template string joins.    *)
(* The operations are functions of the instance                            *)
(*   po = [cache, pendingRequests, metrics]                                *)
(* and of t = Date.now().                                                  *)

DefaultCacheTTL == 300000     \* config.defaultCacheTTL: 5 * 60 * 1000
MaxCacheSize == 100           \* config.maxCacheSize
enableCache == TRUE
enableDeduplication_off == FALSE

enableDeduplication == TRUE

\* generateCacheKey: key is declared const, so key += ... throws a TypeError
\* when options.body is truthy
generateCacheKey(url, options) ==
    IF options.body # ""
    THEN [threw |-> TRUE, key |-> <<>>]
    ELSE [threw |-> FALSE,
          key |-> <<IF options.method # "" THEN options.method ELSE "GET", "_", url>>]

\* the place of an entry in the Map's insertion order is its seq
oldestKey(c) == CHOOSE k \in DOMAIN c : \A x \in DOMAIN c : c[k].seq <= c[x].seq

newestSeq(c) ==
    IF DOMAIN c = {} THEN 0
    ELSE c[CHOOSE k \in DOMAIN c : \A x \in DOMAIN c : c[k].seq >= c[x].seq].seq

setCache(po, key, value, ttl, t) ==
    LET evicted == IF Cardinality(DOMAIN po.cache) >= MaxCacheSize
                   THEN Remove(po.cache, oldestKey(po.cache))
                   ELSE po.cache
        seq == IF key \in DOMAIN evicted THEN evicted[key].seq
               ELSE newestSeq(po.cache) + 1
    IN  [po EXCEPT !.cache = Put(evicted, key,
                                 [value |-> value, timestamp |-> t, ttl |-> ttl,
                                  seq |-> seq])]

getFromCache(po, key, t) ==
    IF key \notin DOMAIN po.cache
    THEN [po |-> [po EXCEPT !.metrics.cacheMisses = @ + 1], hit |-> FALSE, ret |-> <<>>]
    ELSE IF t - po.cache[key].timestamp > po.cache[key].ttl
    THEN [po |-> [po EXCEPT !.cache = Remove(@, key), !.metrics.cacheMisses = @ + 1],
          hit |-> FALSE, ret |-> <<>>]
    ELSE [po |-> [po EXCEPT !.metrics.cacheHits = @ + 1],
          hit |-> TRUE, ret |-> po.cache[key].value]

cleanupCache(po, t) ==
    [po EXCEPT !.cache = [k \in {x \in DOMAIN po.cache :
                                    ~(t - po.cache[x].timestamp > po.cache[x].ttl)}
                             |-> po.cache[k]]]

\* recordMetric: the counters of it
recordMetric(po, type) ==
    [po EXCEPT !.metrics.totalRequests = @ + 1]

-----------------------------------------------------------------------------
(* The page that calls optimizedFetch, the network, and the event loop *)

MaxFetchCalls == 3     \* optimizedFetch is called MaxFetchCalls times
MaxFetchTicks == 2     \* and the clock is followed for MaxFetchTicks steps
ShortTTL == 1000       \* options.cacheTTL of the calls that pass one
ClockStep == 1001      \* milliseconds between two looks at the clock

Urls == {"/api"}

FetchOptions ==
    {[method |-> m, body |-> "", cacheTTL |-> ttl] :
          m \in {"", "GET", "POST"}, ttl \in {0, ShortTTL}}
        \cup {[method |-> "POST", body |-> "b", cacheTTL |-> 0]}

poNow == [cache |-> responseCache, pendingRequests |-> pendingRequests,
          metrics |-> metrics]

Store(po) ==
    /\ responseCache' = po.cache
    /\ pendingRequests' = po.pendingRequests
    /\ metrics' = po.metrics

\* the object executeRequest resolves to
Response(r, ok) == [ok |-> ok, requestId |-> r]

Returned(value) == [kind |-> "returned", value |-> value, error |-> ""]

Threw(error) == [kind |-> "threw", value |-> Response(0, FALSE), error |-> error]

FetchInit ==
    /\ responseCache = EmptyMap
    /\ pendingRequests = EmptyMap
    /\ metrics = [cacheHits |-> 0, cacheMisses |-> 0, totalRequests |-> 0, errors |-> 0]
    /\ requests = <<>>
    /\ waiting = <<>>
    /\ microtasks = <<>>
    /\ outcomes = <<>>
    /\ clock = 0

FetchIdle == FetchInit

Pending == [kind |-> "pending", value |-> Response(0, FALSE), error |-> ""]

\* the reaction of the caller to the promise optimizedFetch returned
PageReaction(call) == [kind |-> "page", call |-> call, ttl |-> 0]

\* the rest of optimizedFetch after its await
Resume(call, ttl) == [kind |-> "resume", call |-> call, ttl |-> ttl]

\* optimizedFetch up to its first await, or to its return; queue is the
\* microtask queue the call leaves behind
optimizedFetch(url, options, queue) ==
    LET call == Len(outcomes) + 1
        k == generateCacheKey(url, options)
        cacheKey == k.key
        looksUp == enableCache /\ options.method # "POST"
        c == IF looksUp THEN getFromCache(poNow, cacheKey, clock)
             ELSE [po |-> poNow, hit |-> FALSE, ret |-> <<>>]
        r == Len(requests) + 1
        ttl == IF options.cacheTTL # 0 THEN options.cacheTTL ELSE DefaultCacheTTL
    IN  IF k.threw
        THEN \* thrown by generateCacheKey, before the try
             /\ outcomes' = Append(outcomes, [key |-> <<>>, role |-> "none",
                               request |-> 0, end |-> Threw("TypeError")])
             /\ microtasks' = Append(queue, PageReaction(call))
             /\ UNCHANGED <<responseCache, pendingRequests, metrics, requests, waiting>>
        ELSE IF c.hit
        THEN \* return cached; finally { pendingRequests.delete(cacheKey) }
             /\ Store([recordMetric(c.po, "cache_hit") EXCEPT
                          !.pendingRequests = Remove(@, cacheKey)])
             /\ outcomes' = Append(outcomes, [key |-> cacheKey, role |-> "cache",
                               request |-> c.ret.requestId, end |-> Returned(c.ret)])
             /\ microtasks' = Append(queue, PageReaction(call))
             /\ UNCHANGED <<requests, waiting>>
        ELSE IF enableDeduplication /\ cacheKey \in DOMAIN c.po.pendingRequests
        THEN \* return await this.pendingRequests.get(cacheKey)
             /\ Store(c.po)
             /\ outcomes' = Append(outcomes, [key |-> cacheKey, role |-> "joined",
                               request |-> c.po.pendingRequests[cacheKey],
                               end |-> Pending])
             /\ waiting' = Append(waiting, Resume(call, ttl))
             /\ microtasks' = queue
             /\ UNCHANGED requests
        ELSE \* executeRequest starts; await requestPromise
             /\ requests' = Append(requests, [key |-> cacheKey, state |-> "pending"])
             /\ Store(IF enableDeduplication
                      THEN [c.po EXCEPT !.pendingRequests = Put(@, cacheKey, r)]
                      ELSE c.po)
             /\ outcomes' = Append(outcomes, [key |-> cacheKey, role |-> "started",
                               request |-> r, end |-> Pending])
             /\ waiting' = Append(waiting, Resume(call, ttl))
             /\ microtasks' = queue

\* the page calls optimizedFetch from a task of its own
OptimizedFetch ==
    \E url \in Urls, options \in FetchOptions :
        /\ microtasks = <<>>
        /\ Len(outcomes) < MaxFetchCalls
        /\ optimizedFetch(url, options, microtasks)
        /\ UNCHANGED <<clock, nonFetchVars>>

\* the page reacts to the outcome of a call, and may call again at once
PageReacts ==
    /\ microtasks # <<>>
    /\ Head(microtasks).kind = "page"
    /\ \/ /\ microtasks' = Tail(microtasks)
          /\ UNCHANGED <<responseCache, pendingRequests, metrics, requests,
                         waiting, outcomes>>
       \/ \E url \in Urls, options \in FetchOptions :
              /\ Len(outcomes) < MaxFetchCalls
              /\ optimizedFetch(url, options, Tail(microtasks))
    /\ UNCHANGED <<clock, nonFetchVars>>

RequestStates == {"ok", "notOk", "rejected"}

\* executeRequest settles the promise of request r, in a task of the network;
\* the calls awaiting it are resumed in the order they began to wait
Settle ==
    \E r \in 1..Len(requests), state \in RequestStates :
        /\ microtasks = <<>>
        /\ requests[r].state = "pending"
        /\ requests' = [requests EXCEPT ![r].state = state]
        /\ microtasks' = SelectSeq(waiting, LAMBDA w : outcomes[w.call].request = r)
        /\ waiting' = SelectSeq(waiting, LAMBDA w : outcomes[w.call].request # r)
        /\ UNCHANGED <<responseCache, pendingRequests, metrics, outcomes, clock,
                       nonFetchVars>>

\* optimizedFetch from its await to its end, finally block included
ResumeFetch ==
    /\ microtasks # <<>>
    /\ Head(microtasks).kind = "resume"
    /\ LET m == Head(microtasks)
           o == outcomes[m.call]
           req == requests[o.request]
           response == Response(o.request, req.state = "ok")
           cached == IF o.role = "started" /\ enableCache /\ response.ok
                     THEN setCache(poNow, o.key, response, m.ttl, clock)
                     ELSE poNow
           counted == IF req.state = "rejected"
                      THEN recordMetric(poNow, "request_error")
                      ELSE IF o.role = "started"
                      THEN recordMetric(cached, "request_success")
                      ELSE poNow
       IN  /\ Store([counted EXCEPT !.pendingRequests = Remove(@, o.key)])
           /\ outcomes' = [outcomes EXCEPT ![m.call].end =
                              IF req.state = "rejected" THEN Threw("NetworkError")
                              ELSE Returned(response)]
           /\ microtasks' = Append(Tail(microtasks), PageReaction(m.call))
    /\ UNCHANGED <<requests, waiting, clock, nonFetchVars>>

\* the timer of cleanupCache fires
CleanupCache ==
    /\ microtasks = <<>>
    /\ responseCache # EmptyMap
    /\ Store(cleanupCache(poNow, clock))
    /\ UNCHANGED <<requests, waiting, microtasks, outcomes, clock, nonFetchVars>>

FetchTick ==
    /\ microtasks = <<>>
    /\ clock < MaxFetchTicks * ClockStep
    /\ clock' = clock + ClockStep
    /\ UNCHANGED <<responseCache, pendingRequests, metrics, requests, waiting,
                   microtasks, outcomes, nonFetchVars>>

FetchNext ==
    \/ OptimizedFetch
    \/ PageReacts
    \/ Settle
    \/ ResumeFetch
    \/ CleanupCache
    \/ FetchTick

-----------------------------------------------------------------------------
(* Claims about optimizedFetch *)

InFlight(reqs, key) == {r \in 1..Len(reqs) : reqs[r].key = key /\ reqs[r].state = "pending"}

Finished(o) == o.role \in {"started", "joined"} /\ o.end.kind # "pending"

\* C20: optimizedFetch de-duplicates.  A call made while a request for its
\* cache key is pending starts no second request and waits for the pending
\* one; every call that waited for a request ends with the outcome of that
\* request, the same for all of them; and once a request has settled and the
\* waiting calls have run, the key has no pending entry left, while a request
\* still pending keeps its entry.
C20_Deduplicates ==
    [][/\ Len(outcomes') = Len(outcomes) + 1
          => LET o == outcomes'[Len(outcomes')]
             IN  o.role # "none" /\ InFlight(requests, o.key) # {}
                 => /\ requests' = requests
                    /\ o.role = "joined"
                    /\ o.request \in InFlight(requests, o.key)
       /\ \A i \in 1..Len(outcomes') :
              Finished(outcomes'[i])
              => LET o == outcomes'[i]
                     state == requests'[o.request].state
                 IN  /\ state # "pending"
                     /\ o.end = IF state = "rejected" THEN Threw("NetworkError")
                                ELSE Returned(Response(o.request, state = "ok"))
                     /\ \A j \in 1..Len(outcomes') :
                            /\ Finished(outcomes'[j])
                            /\ outcomes'[j].request = o.request
                            => outcomes'[j].end = o.end
       /\ microtasks' = <<>>
          => /\ \A key \in DOMAIN pendingRequests' :
                    requests'[pendingRequests'[key]].state = "pending"
             /\ \A r \in 1..Len(requests') :
                    requests'[r].state = "pending"
                    => /\ requests'[r].key \in DOMAIN pendingRequests'
                       /\ pendingRequests'[requests'[r].key] = r]_vars

\* two calls waited for one request, both have ended, and no entry is left
C20_Witness ==
    /\ microtasks = <<>>
    /\ pendingRequests = EmptyMap
    /\ \E i, j \in 1..Len(outcomes) :
           /\ outcomes[i].role = "started" /\ outcomes[j].role = "joined"
           /\ outcomes[i].request = outcomes[j].request
           /\ Finished(outcomes[i]) /\ Finished(outcomes[j])
           /\ Len(requests) = 1

\* C29: in every reachable state the current owner is an authorized voter,
\* whatever authorizeVoter, batchAuthorizeVoters, revokeVoter and
\* transferOwnership calls were made by whatever callers.
C29_OwnerIsAuthorized == owner \in authorizedVoters

\* ownership went to Alice, the deployer was revoked, and an attempt to
\* revoke the new owner was reverted
C29_Witness ==
    /\ tx.op = "revokeVoter"
    /\ tx.reason = "Cannot revoke owner"
    /\ owner = Alice
    /\ Deployer \notin authorizedVoters

-----------------------------------------------------------------------------
(* ErrorHandler.classifyError on its own *)

\* the substrings classifyError looks for; a message is modelled by the set
\* of them it contains (none of them contains another)
Keywords ==
    {"network", "fetch", "connection", "revert", "gas", "contract",
     "wallet", "metamask", "user rejected", "invalid", "validation", "required",
     "permission", "unauthorized", "forbidden", "timeout", "timed out"}

\* error.code: absent, the codes classifyError knows (4001 and 403 are
\* numbers), the string '4001', and a code it does not know
Codes == {"none", "NETWORK_ERROR", "CALL_EXCEPTION", "4001", "403", "TIMEOUT",
          "'4001'", "OTHER"}

\* messages that hold no, one or two of the keywords, and an error without message
ClassifyInputs ==
    {Error(m, c) : m \in {{a, b} : a, b \in Keywords} \cup {{}}, c \in Codes}
        \cup {Error({"<undefined>"}, c) : c \in Codes}

NotClassified == ErrorInfo("", FALSE, "")

ClassifyInit ==
    /\ classified \in {[error |-> e, done |-> FALSE, info |-> NotClassified] :
                          e \in ClassifyInputs}

ClassifyIdle ==
    classified = [error |-> Undefined, done |-> FALSE, info |-> NotClassified]

ClassifyError ==
    /\ ~classified.done
    /\ classified' = [classified EXCEPT !.done = TRUE,
                                        !.info = classifyError(classified.error)]
    /\ UNCHANGED nonClassifyVars

ClassifyNext == ClassifyError

\* the classes in the order the claim gives them, each with its keywords and codes
ErrorClasses ==
    << [type |-> "network", keywords |-> {"network", "fetch", "connection"},
        codes |-> {"NETWORK_ERROR"}],
       [type |-> "contract", keywords |-> {"revert", "gas", "contract"},
        codes |-> {"CALL_EXCEPTION"}],
       [type |-> "wallet", keywords |-> {"wallet", "metamask", "user rejected"},
        codes |-> {"4001"}],
       [type |-> "validation", keywords |-> {"invalid", "validation", "required"},
        codes |-> {}],
       [type |-> "permission", keywords |-> {"permission", "unauthorized", "forbidden"},
        codes |-> {"403"}],
       [type |-> "timeout", keywords |-> {"timeout", "timed out"},
        codes |-> {"TIMEOUT"}] >>

MatchesClass(error, i) ==
    \/ error.message \cap ErrorClasses[i].keywords # {}
    \/ error.code \in ErrorClasses[i].codes

\* C23: classifyError gives every error one class out of network, contract,
\* wallet, validation, permission, timeout, unknown: the first of the six,
\* in that order, one of whose keywords the message contains or whose code
\* the error carries, unknown when none does; and canRetry is true exactly
\* for network, wallet, timeout and unknown.
C23_Classification ==
    classified.done
        => LET e == classified.error
               info == classified.info
               first == {i \in 1..Len(ErrorClasses) :
                            /\ MatchesClass(e, i)
                            /\ \A j \in 1..(i - 1) : ~MatchesClass(e, j)}
           IN  /\ info.type \in {ErrorClasses[i].type : i \in 1..Len(ErrorClasses)}
                                    \cup {"unknown"}
               /\ \A i \in first : info.type = ErrorClasses[i].type
               /\ first = {} => info.type = "unknown"
               /\ info.canRetry <=> info.type \in RetryableTypes

\* a message with a wallet keyword and a contract keyword is a contract error
C23_Witness ==
    /\ classified.done
    /\ classified.error.message = {"user rejected", "revert"}
    /\ classified.error.code = "TIMEOUT"
    /\ classified.info = ErrorInfo("contract", FALSE, "high")

-----------------------------------------------------------------------------
(* StateManager.  The state is a record of the fields of this.state; null  *)
(* is "null" for the fields that hold objects or strings and 0 for the     *)
(* timestamps.  state.cache is a Map or, after JSON.parse(JSON.stringify), *)
(* a plain object, with the entries it shows.                              *)

MaxHistorySize == 50       \* this.maxHistorySize
MaxErrorsKept == 9         \* state.errors.slice(-9)
DefaultCacheEntryTTL == 300000

EmptyCacheMap == [kind |-> "Map", entries |-> EmptyMap]

getInitialState ==
    [isInitialized |-> FALSE, isConnected |-> FALSE,
     userInfo |-> "null", userAddress |-> "null",
     proposals |-> <<>>, selectedProposal |-> "null",
     loading |-> [app |-> FALSE, wallet |-> FALSE, proposals |-> FALSE, voting |-> FALSE],
     errors |-> <<>>, networkInfo |-> "null",
     cache |-> EmptyCacheMap,
     lastUpdate |-> 0, lastProposalUpdate |-> 0]

\* JSON.parse(JSON.stringify(state)): a Map has no enumerable property of
\* its own, so it comes back as the plain object {}
JsonCopy(state) ==
    [state EXCEPT !.cache = IF @.kind = "Map"
                            THEN [kind |-> "Object", entries |-> EmptyMap]
                            ELSE @]

getState(sm) == JsonCopy(sm.state)

\* an action as dispatch receives it: null, an object without a string
\* type, or an object with type and payload
NoPayload == [present |-> FALSE, address |-> "", key |-> "", data |-> "", ttl |-> 0,
              value |-> "", error |-> "", action |-> "", timestamp |-> 0]

Typed(type, payload) == [kind |-> "typed", type |-> type, payload |-> payload]

Payload(fields) == [f \in DOMAIN NoPayload |->
                       IF f = "present" THEN TRUE
                       ELSE IF f \in DOMAIN fields THEN fields[f] ELSE NoPayload[f]]

NullAction == [kind |-> "null", type |-> "", payload |-> NoPayload]

UntypedAction == [kind |-> "untyped", type |-> "", payload |-> NoPayload]

Produced(state) == [threw |-> FALSE, error |-> "", state |-> state]

ReducerThrew(error) == [threw |-> TRUE, error |-> error, state |-> getInitialState]

reducer(state, action, t) ==
    LET type == action.type
        payload == action.payload
    IN  IF type = "INIT_START"
        THEN Produced([state EXCEPT !.loading.app = TRUE])
        ELSE IF type = "INIT_SUCCESS"
        THEN Produced([state EXCEPT !.isInitialized = TRUE, !.loading.app = FALSE])
        ELSE IF type = "INIT_FAILURE"
        THEN Produced([state EXCEPT !.loading.app = FALSE])
        ELSE IF type = "WALLET_CONNECT_START"
        THEN Produced([state EXCEPT !.loading.wallet = TRUE])
        ELSE IF type = "WALLET_CONNECT_SUCCESS"
        THEN IF ~payload.present
             THEN ReducerThrew("Cannot read properties of undefined")
             ELSE Produced([state EXCEPT !.isConnected = TRUE,
                                         !.userAddress = payload.address,
                                         !.loading.wallet = FALSE])
        ELSE IF type = "WALLET_DISCONNECT"
        THEN Produced([state EXCEPT !.isConnected = FALSE, !.userAddress = "null",
                                    !.userInfo = "null", !.loading.wallet = FALSE])
        ELSE IF type = "USER_INFO_UPDATE"
        THEN Produced([state EXCEPT !.userInfo = payload.value])
        ELSE IF type = "PROPOSALS_LOAD_START"
        THEN Produced([state EXCEPT !.loading.proposals = TRUE])
        ELSE IF type = "PROPOSALS_LOAD_SUCCESS"
        THEN Produced([state EXCEPT !.proposals = <<payload.value>>,
                                    !.lastProposalUpdate = t,
                                    !.loading.proposals = FALSE])
        ELSE IF type = "PROPOSALS_LOAD_FAILURE"
        THEN Produced([state EXCEPT !.loading.proposals = FALSE])
        ELSE IF type = "PROPOSAL_SELECT"
        THEN Produced([state EXCEPT !.selectedProposal = payload.value])
        ELSE IF type = "VOTING_START"
        THEN Produced([state EXCEPT !.loading.voting = TRUE])
        ELSE IF type \in {"VOTING_SUCCESS", "VOTING_FAILURE"}
        THEN Produced([state EXCEPT !.loading.voting = FALSE])
        ELSE IF type = "NETWORK_UPDATE"
        THEN Produced([state EXCEPT !.networkInfo = payload.value])
        ELSE IF type = "CACHE_SET"
        THEN \* new Map(state.cache) takes an iterable: a Map, not a plain object
             IF state.cache.kind # "Map"
             THEN ReducerThrew("object is not iterable")
             ELSE IF ~payload.present
             THEN ReducerThrew("Cannot read properties of undefined")
             ELSE Produced([state EXCEPT !.cache.entries =
                               Put(@, payload.key,
                                   [data |-> payload.data, timestamp |-> t,
                                    ttl |-> IF payload.ttl # 0 THEN payload.ttl
                                            ELSE DefaultCacheEntryTTL])])
        ELSE IF type = "CACHE_CLEAR"
        THEN Produced([state EXCEPT !.cache = EmptyCacheMap])
        ELSE IF type = "ERROR_OCCURRED"
        THEN Produced([state EXCEPT !.errors =
                          Append(SubSeq(@, IF Len(@) > MaxErrorsKept
                                           THEN Len(@) - MaxErrorsKept + 1 ELSE 1,
                                        Len(@)), payload)])
        ELSE IF type = "ERROR_CLEAR"
        THEN Produced([state EXCEPT !.errors = <<>>])
        ELSE IF type = "STATE_RESET"
        THEN Produced([getInitialState EXCEPT !.cache = state.cache])
        ELSE Produced(state)

\* what a selector hands to the comparison in notifyListeners
Selected(selector, state) ==
    IF selector = "errors" THEN <<"errors", state.errors>>
    ELSE <<"isConnected", <<state.isConnected>>>>

\* notifyListeners: the listeners that are invoked; one that throws is caught
notifyListeners(sm, action, prevState, newState) ==
    {selector \in sm.listeners :
        \/ selector = "none"
        \/ Selected(selector, prevState) # Selected(selector, newState)}

\* mutant: the oldest entry is never dropped
addToHistory_unbounded(h, entry) == Append(h, entry)

\* addToHistory; of an entry the model keeps the action type and the timestamp
addToHistory(h, entry) ==
    IF Len(h) + 1 > MaxHistorySize THEN Tail(Append(h, entry)) ELSE Append(h, entry)

\* what a dispatch call did
Did(action, depth, outcome, prevState, newState, historyAdded, invoked) ==
    [type |-> action.type, kind |-> action.kind, depth |-> depth,
     outcome |-> outcome, prevState |-> prevState, newState |-> newState,
     historyAdded |-> historyAdded, invoked |-> invoked]

Ended(sm, did) == [sm EXCEPT !.dispatched = Append(@, did)]

RECURSIVE dispatch(_, _, _, _)
RECURSIVE catchBlock(_, _, _, _, _)
RECURSIVE reduceAndUpdate(_, _, _, _, _)

\* dispatch after the middleware loop: reducer, comparison, update
reduceAndUpdate(sm, action, prevState, t, depth) ==
    LET r == reducer(prevState, action, t) IN
    IF r.threw THEN catchBlock(sm, action, r.error, t, depth)
    ELSE IF JsonCopy(r.state) # JsonCopy(prevState)
    THEN LET invoked == notifyListeners(sm, action, prevState, r.state)
         IN  Ended([sm EXCEPT !.state = r.state,
                              !.history = addToHistory(@, [type |-> action.type,
                                                           timestamp |-> t])],
                   Did(action, depth, "updated", prevState, r.state, TRUE, invoked))
    ELSE Ended(sm, Did(action, depth, "unchanged", prevState, r.state, FALSE, {}))

\* the catch block of dispatch: it reads action.type, which throws when the
\* action is null, and dispatches ERROR_OCCURRED without awaiting it
catchBlock(sm, action, error, t, depth) ==
    IF action.kind = "null"
    THEN Ended(sm, Did(action, depth, "rejected", sm.state, sm.state, FALSE, {}))
    ELSE LET nested == dispatch(sm, Typed("ERROR_OCCURRED",
                                          Payload([error |-> error, action |-> action.type,
                                                   timestamp |-> t])),
                                t, depth + 1)
         IN  Ended(nested, Did(action, depth, "caught", sm.state, sm.state, FALSE, {}))

\* dispatch up to its first await, or to its end when there is no middleware
dispatch(sm, action, t, depth) ==
    IF action.kind # "typed"
    THEN catchBlock(sm, action, "Invalid action: must have a type property", t, depth)
    ELSE LET prevState == getState(sm) IN
         IF sm.middleware = <<>>
         THEN reduceAndUpdate(sm, action, prevState, t, depth)
         ELSE [sm EXCEPT !.dispatching =
                  Append(@, [action |-> action, prevState |-> prevState,
                             index |-> 1, depth |-> depth])]

\* the i-th waiting dispatch goes on after `await middleware(...)`; the
\* middleware passed the action on, cancelled it, or failed
resumeDispatch(sm, i, t) ==
    LET d == sm.dispatching[i]
        how == sm.middleware[d.index]
        rest == [sm EXCEPT !.dispatching =
                    SubSeq(@, 1, i - 1) \o SubSeq(@, i + 1, Len(@))]
    IN  IF how = "fails" THEN catchBlock(rest, d.action, "middleware failed", t, d.depth)
        ELSE IF how = "cancels"
        THEN Ended(rest, Did(d.action, d.depth, "cancelled", d.prevState, d.prevState,
                             FALSE, {}))
        ELSE IF d.index < Len(sm.middleware)
        THEN [rest EXCEPT !.dispatching = Append(@, [d EXCEPT !.index = @ + 1])]
        ELSE reduceAndUpdate(rest, d.action, d.prevState, t, d.depth)

\* getCache: the value returned, or the TypeError of calling .get on an
\* object that has no such method
getCache(sm, key, t) ==
    IF sm.state.cache.kind # "Map"
    THEN [sm |-> sm, ret |-> "<TypeError>"]
    ELSE IF key \notin DOMAIN sm.state.cache.entries
    THEN [sm |-> sm, ret |-> "null"]
    ELSE LET cached == sm.state.cache.entries[key] IN
         IF t - cached.timestamp > cached.ttl
         THEN [sm |-> dispatch(sm, Typed("CACHE_CLEAR", NoPayload), t, 0), ret |-> "null"]
         ELSE [sm |-> sm, ret |-> cached.data]

setCacheSM(sm, key, data, ttl, t) ==
    dispatch(sm, Typed("CACHE_SET", Payload([key |-> key, data |-> data, ttl |-> ttl])),
             t, 0)

-----------------------------------------------------------------------------
(* The page that uses the state manager *)

MaxSmCalls == 3      \* calls the page makes on the state manager
MaxDepth == 3        \* an error dispatch is followed MaxDepth levels deep
SmNow0 == 1000       \* Date.now() when the page is observed first
MaxSmTicks == 1      \* the clock is followed for MaxSmTicks steps

smNowRec ==
    [state |-> smState, listeners |-> listeners, middleware |-> middleware,
     history |-> history, dispatching |-> dispatching, dispatched |-> dispatched]

StoreSM(sm) ==
    /\ smState' = sm.state
    /\ listeners' = sm.listeners
    /\ middleware' = sm.middleware
    /\ history' = sm.history
    /\ dispatching' = sm.dispatching
    /\ dispatched' = sm.dispatched

\* the actions the page dispatches: SET_LOADING is one of the types app.js
\* uses, which the reducer does not handle
DispatchActions ==
    { NullAction, UntypedAction,
      Typed("INIT_START", NoPayload),
      Typed("WALLET_CONNECT_SUCCESS", Payload([address |-> "0xA"])),
      Typed("WALLET_CONNECT_SUCCESS", NoPayload),
      Typed("CACHE_CLEAR", NoPayload),
      Typed("ERROR_CLEAR", NoPayload),
      Typed("STATE_RESET", NoPayload),
      Typed("SET_LOADING", Payload([value |-> "on"])),
      Typed("ERROR_OCCURRED", Payload([error |-> "e", action |-> "", timestamp |-> SmNow0])) }

MiddlewareKinds == {"passes", "cancels", "fails"}

Selectors == {"none", "errors", "isConnected"}

CacheKeys == {"k1", "k2"}

\* a page that has run for a while: INIT_START and INIT_FAILURE took turns
\* and ten errors were recorded, which fills both the history and the errors
AgedErrors ==
    [i \in 1..(MaxErrorsKept + 1) |->
        Payload([error |-> "e", action |-> "", timestamp |-> SmNow0 - 1])]

AgedHistory ==
    [i \in 1..MaxHistorySize |->
        IF i > MaxHistorySize - (MaxErrorsKept + 1)
        THEN [type |-> "ERROR_OCCURRED", timestamp |-> SmNow0 - 1]
        ELSE [type |-> IF i % 2 = 1 THEN "INIT_START" ELSE "INIT_FAILURE",
              timestamp |-> SmNow0 - 1]]

AgedState == [JsonCopy(getInitialState) EXCEPT !.errors = AgedErrors]

StateInit ==
    /\ smState \in {getInitialState, AgedState}
    /\ history = IF smState = AgedState THEN AgedHistory ELSE <<>>
    /\ listeners = {}
    /\ middleware = <<>>
    /\ dispatching = <<>>
    /\ dispatched = <<>>
    /\ smNow = SmNow0
    /\ smCalls = 0
    /\ smLast = [op |-> "new", key |-> "", data |-> "", ret |-> ""]

StateIdle ==
    /\ smState = getInitialState
    /\ history = <<>>
    /\ listeners = {}
    /\ middleware = <<>>
    /\ dispatching = <<>>
    /\ dispatched = <<>>
    /\ smNow = SmNow0
    /\ smCalls = 0
    /\ smLast = [op |-> "new", key |-> "", data |-> "", ret |-> ""]

SmCalled == smCalls < MaxSmCalls /\ smCalls' = smCalls + 1

Dispatch ==
    \E action \in DispatchActions :
        /\ SmCalled
        /\ StoreSM(dispatch(smNowRec, action, smNow, 0))
        /\ smLast' = [op |-> "dispatch", key |-> "", data |-> "", ret |-> ""]
        /\ UNCHANGED <<smNow, nonStateVars>>

ResumeDispatch ==
    \E i \in 1..Len(dispatching) :
        /\ dispatching[i].depth < MaxDepth
        /\ StoreSM(resumeDispatch(smNowRec, i, smNow))
        /\ UNCHANGED <<smNow, smCalls, smLast, nonStateVars>>

Use ==
    \E how \in MiddlewareKinds :
        /\ SmCalled
        /\ middleware = <<>>
        /\ middleware' = Append(middleware, how)
        /\ smLast' = [op |-> "use", key |-> "", data |-> "", ret |-> ""]
        /\ UNCHANGED <<smState, listeners, history, dispatching, dispatched, smNow,
                       nonStateVars>>

Subscribe ==
    \E selector \in Selectors :
        /\ SmCalled
        /\ selector \notin listeners
        /\ listeners' = listeners \cup {selector}
        /\ smLast' = [op |-> "subscribe", key |-> "", data |-> "", ret |-> ""]
        /\ UNCHANGED <<smState, middleware, history, dispatching, dispatched, smNow,
                       nonStateVars>>

SetCache ==
    \E key \in CacheKeys :
        /\ SmCalled
        /\ StoreSM(setCacheSM(smNowRec, key, "data", 0, smNow))
        /\ smLast' = [op |-> "setCache", key |-> key, data |-> "data", ret |-> ""]
        /\ UNCHANGED <<smNow, nonStateVars>>

GetCache ==
    \E key \in CacheKeys :
        /\ SmCalled
        /\ LET r == getCache(smNowRec, key, smNow)
           IN  /\ StoreSM(r.sm)
               /\ smLast' = [op |-> "getCache", key |-> key, data |-> smLast.data,
                             ret |-> r.ret]
        /\ UNCHANGED <<smNow, nonStateVars>>

SmTick ==
    /\ smNow < SmNow0 + MaxSmTicks
    /\ smNow' = smNow + 1
    /\ UNCHANGED <<smState, listeners, middleware, history, dispatching, dispatched,
                   smCalls, smLast, nonStateVars>>

StateNext ==
    \/ Dispatch
    \/ ResumeDispatch
    \/ Use
    \/ Subscribe
    \/ SetCache
    \/ GetCache
    \/ SmTick

-----------------------------------------------------------------------------
(* Claims about StateManager *)

\* C26: getCache(key) called after setCache(key, data, ttl), before the ttl
\* has elapsed, returns data; and a getCache that returns null leaves every
\* other key that is not expired in the cache.
C26_CacheRoundTrip ==
    [][(smCalls' = smCalls + 1 /\ smLast'.op = "getCache")
          => /\ (smLast.op = "setCache" /\ smLast.key = smLast'.key)
                   => smLast'.ret = smLast.data
             /\ \A k \in DOMAIN smState.cache.entries :
                    (/\ k # smLast'.key
                     /\ ~(smNow - smState.cache.entries[k].timestamp
                              > smState.cache.entries[k].ttl))
                    => k \in DOMAIN smState'.cache.entries]_vars

\* the action types the reducer has a case for
HandledTypes ==
    {"INIT_START", "INIT_SUCCESS", "INIT_FAILURE", "WALLET_CONNECT_START",
     "WALLET_CONNECT_SUCCESS", "WALLET_DISCONNECT", "USER_INFO_UPDATE",
     "PROPOSALS_LOAD_START", "PROPOSALS_LOAD_SUCCESS", "PROPOSALS_LOAD_FAILURE",
     "PROPOSAL_SELECT", "VOTING_START", "VOTING_SUCCESS", "VOTING_FAILURE",
     "NETWORK_UPDATE", "CACHE_SET", "CACHE_CLEAR", "ERROR_OCCURRED", "ERROR_CLEAR",
     "STATE_RESET"}

\* the reducer ran for this dispatch and produced a state whose serialised
\* form is not that of the previous state
ProducedDifferent(d) ==
    /\ d.outcome \in {"updated", "unchanged"}
    /\ JsonCopy(d.newState) # JsonCopy(d.prevState)

JustEnded == SubSeq(dispatched', Len(dispatched) + 1, Len(dispatched'))

\* C27: a dispatch appends a history entry and notifies the listeners if and
\* only if its reducer produced a state that differs from the previous one;
\* an action of a type the reducer has no case for leaves the state as it
\* is, notifies nobody and adds no history entry; the history never holds
\* more than maxHistorySize entries and state.errors never more than 10.
C27_NotifyIffChanged ==
    [][/\ \A i \in 1..Len(JustEnded) :
              LET d == JustEnded[i] IN
              /\ d.historyAdded <=> ProducedDifferent(d)
              /\ d.invoked # {} => ProducedDifferent(d)
              /\ "none" \in listeners => ("none" \in d.invoked <=> ProducedDifferent(d))
              /\ (d.kind = "typed" /\ d.type \notin HandledTypes
                      /\ d.outcome \in {"updated", "unchanged"})
                    => /\ d.outcome = "unchanged"
                       /\ d.newState = d.prevState
                       /\ d.invoked = {}
       /\ (\A i \in 1..Len(JustEnded) : ~ProducedDifferent(JustEnded[i]))
             => smState' = smState /\ history' = history
       /\ (\E i \in 1..Len(JustEnded) : ProducedDifferent(JustEnded[i]))
             => /\ history' # history
                /\ history'[Len(history')].timestamp = smNow
       /\ Len(history') <= MaxHistorySize
       /\ Len(smState'.errors) <= MaxErrorsKept + 1]_vars

\* with the history and the errors full, an unhandled action changed nothing
\* and an error was recorded: the oldest history entry and the oldest error
\* are gone, and the listener that has no selector was called
C27_Witness ==
    /\ Len(history) = MaxHistorySize
    /\ history[1].type = "INIT_FAILURE"
    /\ history[MaxHistorySize].timestamp >= SmNow0
    /\ Len(smState.errors) = MaxErrorsKept + 1
    /\ smState.errors[MaxErrorsKept + 1].timestamp >= SmNow0
    /\ "none" \in listeners
    /\ \E i \in 1..Len(dispatched) :
           dispatched[i].type = "SET_LOADING" /\ dispatched[i].outcome = "unchanged"
    /\ \E i \in 1..Len(dispatched) :
           dispatched[i].outcome = "updated" /\ "none" \in dispatched[i].invoked

\* C28: dispatch never fails: no call of it ends with a rejected promise,
\* also for a null or untyped action or a failing middleware or reducer, and
\* the ERROR_OCCURRED dispatch that the catch block makes does not itself
\* lead to a further error dispatch.
C28_DispatchSettles ==
    /\ \A i \in 1..Len(dispatched) :
           dispatched[i].outcome # "rejected" /\ dispatched[i].depth <= 1
    /\ \A i \in 1..Len(dispatching) : dispatching[i].depth <= 1

-----------------------------------------------------------------------------
(* WalletManager.  connect is split at its awaits; "null" is null.          *)

MaxWalletCalls == 3     \* connect and disconnect are called MaxWalletCalls times

Web3Provider == "provider"

Accounts == {"0xA", "0xB"}

\* the constructor, and disconnect
Disconnected ==
    [provider |-> "null", signer |-> "null", userAddress |-> "null", isOwner |-> FALSE]

isConnected(w) == w.provider # "null" /\ w.signer # "null" /\ w.userAddress # "null"

\* return true at the end of the try block
ConnectReturnsTrue ==
    /\ walletPc' = "idle"
    /\ walletLast' = [op |-> "connect", ret |-> TRUE]
    /\ connectedOk' = TRUE

\* catch (error) { this.handleConnectionError(error); return false; }
ConnectReturnsFalse(error) ==
    /\ walletPc' = "idle"
    /\ walletLast' = [op |-> "connect", ret |-> FALSE, error |-> error]
    /\ UNCHANGED connectedOk

WalletInit ==
    /\ wallet = Disconnected
    /\ walletPc = "idle"
    /\ ethereum \in BOOLEAN
    /\ walletLast = [op |-> "new", ret |-> FALSE]
    /\ connectedOk = FALSE
    /\ walletCalls = 0

WalletIdle ==
    /\ wallet = Disconnected
    /\ walletPc = "idle"
    /\ ethereum = TRUE
    /\ walletLast = [op |-> "new", ret |-> FALSE]
    /\ connectedOk = FALSE
    /\ walletCalls = 0

\* connect up to `await Promise.race([connectionPromise, timeoutPromise])`
Connect ==
    /\ walletCalls < MaxWalletCalls
    /\ walletPc = "idle"
    /\ walletCalls' = walletCalls + 1
    /\ IF ~ethereum
       THEN ConnectReturnsFalse("Please install MetaMask wallet")
       ELSE /\ walletPc' = "requestAccounts"
            /\ walletLast' = [op |-> "connecting", ret |-> FALSE]
            /\ UNCHANGED connectedOk
    /\ UNCHANGED <<wallet, ethereum, nonWalletVars>>

\* the race is settled: accounts granted, request rejected, or timeout
AccountsSettle ==
    /\ walletPc = "requestAccounts"
    /\ \/ /\ wallet' = [wallet EXCEPT !.provider = Web3Provider, !.signer = "signer"]
          /\ walletPc' = "getAddress"
          /\ UNCHANGED <<walletLast, connectedOk>>
       \/ \E error \in {"User rejected the request", "Connection timeout"} :
              /\ ConnectReturnsFalse(error)
              /\ UNCHANGED wallet
    /\ UNCHANGED <<ethereum, walletCalls, nonWalletVars>>

\* this.userAddress = await this.signer.getAddress(); validateNetwork starts
\* with this.provider.getNetwork(), a TypeError once disconnect has run
AddressSettles ==
    /\ walletPc = "getAddress"
    /\ \/ \E address \in Accounts :
              /\ wallet' = [wallet EXCEPT !.userAddress = address]
              /\ IF wallet.provider = "null"
                 THEN ConnectReturnsFalse("Cannot read properties of null")
                 ELSE /\ walletPc' = "getNetwork"
                      /\ UNCHANGED <<walletLast, connectedOk>>
       \/ /\ ConnectReturnsFalse("unknown account")
          /\ UNCHANGED wallet
    /\ UNCHANGED <<ethereum, walletCalls, nonWalletVars>>

\* validateNetwork after `await this.provider.getNetwork()`; when the chain
\* is the expected one connect runs to its end
NetworkSettles ==
    /\ walletPc = "getNetwork"
    /\ \/ /\ ConnectReturnsTrue
          /\ wallet' = [wallet EXCEPT !.provider = Web3Provider, !.signer = "signer"]
       \/ /\ walletPc' = "switchChain"
          /\ UNCHANGED <<wallet, walletLast, connectedOk>>
       \/ /\ ConnectReturnsFalse("could not detect network")
          /\ UNCHANGED wallet
    /\ UNCHANGED <<ethereum, walletCalls, nonWalletVars>>

\* switchToLocalNetwork after wallet_switchEthereumChain: switched, chain
\* unknown (4902, the chain is added next), or refused
SwitchSettles ==
    /\ walletPc \in {"switchChain", "addChain"}
    /\ \/ /\ ConnectReturnsTrue
          /\ wallet' = [wallet EXCEPT !.provider = Web3Provider, !.signer = "signer"]
       \/ /\ walletPc = "switchChain"
          /\ walletPc' = "addChain"
          /\ UNCHANGED <<wallet, walletLast, connectedOk>>
       \/ /\ ConnectReturnsFalse("Please manually switch to local network")
          /\ UNCHANGED wallet
    /\ UNCHANGED <<ethereum, walletCalls, nonWalletVars>>

\* disconnect, called by the page or by the accountsChanged listener
Disconnect ==
    /\ walletCalls < MaxWalletCalls
    /\ walletCalls' = walletCalls + 1
    /\ wallet' = Disconnected
    /\ walletLast' = [op |-> "disconnect", ret |-> FALSE]
    /\ connectedOk' = FALSE
    /\ UNCHANGED <<walletPc, ethereum, nonWalletVars>>

WalletNext ==
    \/ Connect
    \/ AccountsSettle
    \/ AddressSettles
    \/ NetworkSettles
    \/ SwitchSettles
    \/ Disconnect

-----------------------------------------------------------------------------
(* Claims about WalletManager *)

\* C30: after a connect that resolved to false isConnected() is false, and
\* isConnected() is true only after a connect that resolved to true and
\* before the next disconnect.
C30_ConnectedOnlyAfterSuccess ==
    /\ (walletLast.op = "connect" /\ ~walletLast.ret) => ~isConnected(wallet)
    /\ isConnected(wallet) => connectedOk

-----------------------------------------------------------------------------
(* Specifications *)

InitCache == CacheInit /\ RetryIdle /\ GetOrSetIdle /\ VotingIdle /\ FetchIdle /\ ClassifyIdle /\ StateIdle /\ WalletIdle

SpecCache == InitCache /\ [][CacheNext]_vars

InitRetry == RetryInit /\ CacheInit /\ GetOrSetIdle /\ VotingIdle /\ FetchIdle /\ ClassifyIdle /\ StateIdle /\ WalletIdle

SpecRetry == InitRetry /\ [][RetryNext]_vars

InitGetOrSet == CacheInit /\ RetryIdle /\ GetOrSetIdle /\ VotingIdle /\ FetchIdle /\ ClassifyIdle /\ StateIdle /\ WalletIdle

SpecGetOrSet == InitGetOrSet /\ [][GetOrSetNext]_vars

InitVoting == VotingInit /\ CacheInit /\ RetryIdle /\ GetOrSetIdle /\ FetchIdle /\ ClassifyIdle /\ StateIdle /\ WalletIdle

SpecVoting == InitVoting /\ [][VotingNext]_vars

InitFetch == FetchInit /\ CacheInit /\ RetryIdle /\ GetOrSetIdle /\ VotingIdle /\ ClassifyIdle /\ StateIdle /\ WalletIdle

SpecFetch == InitFetch /\ [][FetchNext]_vars

InitClassify ==
    ClassifyInit /\ CacheInit /\ RetryIdle /\ GetOrSetIdle /\ VotingIdle /\ FetchIdle
        /\ StateIdle /\ WalletIdle

SpecClassify == InitClassify /\ [][ClassifyNext]_vars

InitState ==
    StateInit /\ CacheInit /\ RetryIdle /\ GetOrSetIdle /\ VotingIdle /\ FetchIdle
        /\ ClassifyIdle /\ WalletIdle

SpecState == InitState /\ [][StateNext]_vars

InitWallet ==
    WalletInit /\ CacheInit /\ RetryIdle /\ GetOrSetIdle /\ VotingIdle /\ FetchIdle
        /\ ClassifyIdle /\ StateIdle

SpecWallet == InitWallet /\ [][WalletNext]_vars

====
